---- MODULE Spec2Model ----
(***************************************************************************)
(* Session and approval coordination of claude-discord-bot.                *)
(*                                                                         *)
(* The model follows the event loop of the Node process: every action is   *)
(* one synchronous segment of a handler (from one await to the next), so   *)
(* the interleavings TLC explores are the interleavings the cooperative    *)
(* scheduler allows.                                                       *)
(***************************************************************************)
EXTENDS Integers, Sequences, FiniteSets, TLC

(***************************************************************************)
(* Bounds of the model.                                                    *)
(***************************************************************************)
MaxMsgs == 2
MaxReqs == 2
MaxInits == 1
MaxCount == 2
MaxTime == 5
MaxBuffer == 3
MaxRateLimits == 2
MaxContent == 6
MaxLimit == 4

(***************************************************************************)
(* Value domains.                                                          *)
(***************************************************************************)
Channels == {"c1", "c2"}
Handles == {"h1", "h2"}
Null == "null"
Msgs == 1..MaxMsgs
Reqs == 1..MaxReqs
Tools == {"Bash", "NotebookEdit"}
dangerousTools == {"Bash"}

VARIABLES
  activeSessions,   \* SessionManager.activeSessions: channel -> ManagedSession
  storeData,        \* SessionPersistence.data.channels
  disk,             \* contents of the sessions file written by save()
  handler,          \* one handleMessage execution per inbound message
  abortSignalled,   \* per execution: the invocation's AbortController fired
  clearPc,          \* position of clearSession per channel
  clearedSince,     \* per channel: cleared, and no invocation started since
  rewindReply,      \* what the last rewindSession call returned
  toolUseIds,       \* per request: the tool-use id the SDK passes to the hook
  hook,             \* one PreToolUse hook call per request
  published,        \* the approval message of a request exists on Discord
  pendingApprovals, \* PermissionHook.pendingApprovals: toolUseId -> owner
  timer,            \* the setTimeout handle of a request
  promise,          \* approvalPromise of a request
  fired,            \* per request: the first resolution event that fired
  uiEdits,          \* per request: the embed edits issued, in issue order
  reactQueue,       \* fallback reactions requested and not yet answered
  reactions,        \* fallback reactions attached to the approval message
  btnInFlight,      \* button interactions awaiting deferUpdate
  cancelFetch,      \* cancelPendingApprovals' message fetches in flight
  lostDecision,     \* per request: a decision found no entry after an affordance existed
  now,              \* Date.now(), in ticks of 1000 ms
  streamPc,         \* where handleMessage stands with its ChunkedUpdater
  currentMessage,   \* ChunkedUpdater.currentMessage is set
  contentBuffer,    \* length of ChunkedUpdater.contentBuffer
  lastUpdateTime,   \* ChunkedUpdater.lastUpdateTime
  updateTimer,      \* ChunkedUpdater.updateTimer is set
  timers,           \* due times of the armed flush timers, oldest first
  isEditing,        \* ChunkedUpdater.isEditing
  pendingUpdate,    \* ChunkedUpdater.pendingUpdate
  consecutiveRateLimits, \* ChunkedUpdater.consecutiveRateLimits
  flushPc,          \* position of the flushUpdate call that passed the guard
  backoffDue,       \* when the rate-limit sleep of flushUpdate ends
  backoff,          \* the backoff computed at the last rate limit
  chunkIndex,       \* the loop index i of finalize
  inFlight,         \* sends and edits of the response awaiting Discord's answer
  flushStart,       \* when the flush in flight started
  lastGoodStart,    \* when the last flush that succeeded had started
  windowAppends,    \* appendContent calls covered by the timer armed last
  contentToSend,    \* length of contentToSend of the flush in flight
  flushed,          \* length of the buffer the last successful flush carried
  callerEdits,      \* the request of finalize or sendError in flight is an edit
  streamed,         \* what the message behind currentMessage shows on Discord
  others,           \* the other messages of the response on Discord, in order
  finalFailed,      \* a send of finalize failed
  content,          \* the content argument of splitMessage, a sequence of characters
  maxLength,        \* the maxLength argument of splitMessage
  splitChunks,      \* what splitMessage returned, <<>> before the call
  splitIndex        \* what findSplitPoint returned for content, -1 before the call

sessionVars == <<activeSessions, storeData, disk, handler, abortSignalled, clearPc,
                 clearedSince, rewindReply>>
gateVars == <<toolUseIds, hook, published, pendingApprovals, timer, promise, fired, uiEdits,
              reactQueue, reactions, btnInFlight, cancelFetch, lostDecision>>
streamVars == <<now, streamPc, currentMessage, contentBuffer, lastUpdateTime, updateTimer,
                timers, isEditing, pendingUpdate, consecutiveRateLimits, flushPc,
                backoffDue, backoff, chunkIndex, inFlight, flushStart, lastGoodStart,
                windowAppends, contentToSend, flushed, callerEdits, streamed, others,
                finalFailed>>
splitVars == <<content, maxLength, splitChunks, splitIndex>>
vars == <<activeSessions, storeData, disk, handler, abortSignalled, clearPc, clearedSince,
          rewindReply, toolUseIds, hook, published, pendingApprovals, timer, promise, fired, uiEdits,
          reactQueue, reactions, btnInFlight, cancelFetch, lostDecision,
          now, streamPc, currentMessage, contentBuffer, lastUpdateTime, updateTimer,
          timers, isEditing, pendingUpdate, consecutiveRateLimits, flushPc,
          backoffDue, backoff, chunkIndex, inFlight, flushStart, lastGoodStart, windowAppends,
          contentToSend, flushed, callerEdits, streamed, others, finalFailed,
          content, maxLength, splitChunks, splitIndex>>

(***************************************************************************)
(* Session store (SessionPersistence).                                     *)
(***************************************************************************)
NoRecord == [present |-> FALSE, sdkSessionId |-> Null, messageHistory |-> <<>>]

getSessionId(data, c) ==
  IF data[c].present THEN data[c].sdkSessionId ELSE Null

\* setSessionId(channelId, sessionId)
setSessionId(data, c, h) ==
  [data EXCEPT ![c] = [present |-> TRUE, sdkSessionId |-> h,
                       messageHistory |-> IF @.present THEN @.messageHistory ELSE <<>>]]

\* mutant: the handle is put at the bottom of the stack
pushMessageHistory_Bottom(data, c, h) ==
  IF ~data[c].present THEN data
  ELSE [data EXCEPT ![c].messageHistory = <<h>> \o @]

\* pushMessageHistory(channelId, sessionId)
pushMessageHistory(data, c, h) ==
  IF ~data[c].present THEN data
  ELSE [data EXCEPT ![c].messageHistory = Append(@, h)]

storeClearSession(data, c) == [data EXCEPT ![c] = NoRecord]

getMessageCount(data, c) ==
  IF data[c].present THEN Len(data[c].messageHistory) ELSE 0

\* mutant: the loop runs once more than requested
RECURSIVE popLoop_OffByOne(_, _, _)
popLoop_OffByOne(history, i, count) ==
  IF i <= count /\ Len(history) > 0
  THEN popLoop_OffByOne(SubSeq(history, 1, Len(history) - 1), i + 1, count)
  ELSE history

\* the pop loop of rewindMessageHistory
RECURSIVE popLoop(_, _, _)
popLoop(history, i, count) ==
  IF i < count /\ Len(history) > 0
  THEN popLoop(SubSeq(history, 1, Len(history) - 1), i + 1, count)
  ELSE history

\* the record map after rewindMessageHistory(c, count)
rewindMessageHistory(data, c, count) ==
  IF ~data[c].present THEN data
  ELSE [data EXCEPT ![c].messageHistory = popLoop(@, 0, count)]

\* the value rewindMessageHistory(c, count) returns, given the map it leaves
rewindResult(data, c) ==
  IF ~data[c].present THEN Null
  ELSE IF Len(data[c].messageHistory) > 0
       THEN data[c].messageHistory[Len(data[c].messageHistory)]
       ELSE Null

\* mutant: the file keeps the handles but not the history stacks
save_HandleOnly(data, ok) ==
  disk' = IF ok THEN [c \in DOMAIN data |-> [data[c] EXCEPT !.messageHistory = <<>>]]
          ELSE disk

\* save(): writeFileSync of the whole map; a failure is caught and logged
save(data, ok) == disk' = IF ok THEN data ELSE disk

(***************************************************************************)
(* Session manager and message handler.                                    *)
(***************************************************************************)
NoSession == [present |-> FALSE, sdkSessionId |-> Null, isProcessing |-> FALSE]

\* the map after getOrCreateSession(c)
getOrCreateSession(sessions, c) ==
  IF sessions[c].present THEN sessions
  ELSE [sessions EXCEPT ![c] = [present |-> TRUE,
                                sdkSessionId |-> getSessionId(storeData, c),
                                isProcessing |-> FALSE]]

NewHandler == [pc |-> "new", ch |-> "c1", inits |-> 0, aborted |-> FALSE, rejection |-> "none"]

\* positions of handleMessage between `session.isProcessing = true` and the
\* inner finally
InFlightPcs == {"images", "typing", "query", "finalize", "sendError"}

InFlight(c) == {m \in Msgs : handler[m].ch = c /\ handler[m].pc \in InFlightPcs}

\* MessageCreate: handleMessage up to its first await on I/O. The await of
\* getOrCreateSession resumes in the same turn of the event loop, so the
\* isProcessing check and the assignment belong to this segment.
H_Receive(m, c, emptyContent) ==
  /\ handler[m].pc = "new"
  /\ \A n \in Msgs : n < m => handler[n].pc # "new"
  /\ LET sessions == getOrCreateSession(activeSessions, c) IN
     IF sessions[c].isProcessing
     THEN /\ handler' = [handler EXCEPT ![m] = [pc |-> "busyReact", ch |-> c, inits |-> 0, aborted |-> FALSE, rejection |-> "none"]]
          /\ activeSessions' = sessions
          /\ UNCHANGED clearedSince
     ELSE IF emptyContent
     THEN /\ handler' = [handler EXCEPT ![m] = [pc |-> "done", ch |-> c, inits |-> 0, aborted |-> FALSE, rejection |-> "none"]]
          /\ activeSessions' = sessions
          /\ UNCHANGED clearedSince
     ELSE /\ handler' = [handler EXCEPT ![m] = [pc |-> "images", ch |-> c, inits |-> 0, aborted |-> FALSE, rejection |-> "none"]]
          /\ activeSessions' = [sessions EXCEPT ![c].isProcessing = TRUE]
          /\ clearedSince' = [clearedSince EXCEPT ![c] = FALSE]
  /\ UNCHANGED <<storeData, disk, abortSignalled, clearPc>>
  /\ UNCHANGED rewindReply
  /\ UNCHANGED gateVars
  /\ UNCHANGED streamVars
  /\ UNCHANGED splitVars

\* mutant: after the reaction the message is handled as if it had just arrived
H_BusyReacted_Queued(m) ==
  /\ handler[m].pc = "busyReact"
  /\ handler' = [handler EXCEPT ![m].pc = "images"]
  /\ activeSessions' = [activeSessions EXCEPT ![handler[m].ch].isProcessing = TRUE]
  /\ UNCHANGED <<storeData, disk, abortSignalled, clearPc, clearedSince>>
  /\ UNCHANGED rewindReply
  /\ UNCHANGED gateVars
  /\ UNCHANGED streamVars
  /\ UNCHANGED splitVars

\* the unhandledRejection handler of the process: a known SDK transport error
\* is suppressed, any other reason ends the process
unhandledRejection(known) == IF known THEN "suppressed" ELSE "exit"

\* mutant: the rejection of the listener's promise is handled by nobody
listenerRejected_Unhandled(known) == unhandledRejection(known)

\* handleMessage rejects and with it the promise of the async MessageCreate
\* listener. The discord.js Client is an EventEmitter that captures the
\* rejections of its listeners and emits them as Events.Error, for which the
\* bot has a listener that logs the error.
listenerRejected(known) == "logged"

\* `await message.react(hourglass)` is rejected: there is no catch, the outer
\* finally runs and handleMessage rejects
H_BusyReactFails(m, known) ==
  /\ handler[m].pc = "busyReact"
  /\ handler' = [handler EXCEPT ![m].pc = "done", ![m].rejection = listenerRejected(known)]
  /\ UNCHANGED <<activeSessions, storeData, disk, abortSignalled, clearPc, clearedSince>>
  /\ UNCHANGED rewindReply
  /\ UNCHANGED gateVars
  /\ UNCHANGED streamVars
  /\ UNCHANGED splitVars

\* `await message.react(hourglass)` settles; the outer finally runs
H_BusyReacted(m) ==
  /\ handler[m].pc = "busyReact"
  /\ handler' = [handler EXCEPT ![m].pc = "done"]
  /\ UNCHANGED <<activeSessions, storeData, disk, abortSignalled, clearPc, clearedSince>>
  /\ UNCHANGED rewindReply
  /\ UNCHANGED gateVars
  /\ UNCHANGED streamVars
  /\ UNCHANGED splitVars

\* `await processImages` returns; the updater is created, sendTyping is called
H_ImagesDone(m) ==
  /\ handler[m].pc = "images"
  /\ handler' = [handler EXCEPT ![m].pc = "typing"]
  /\ UNCHANGED <<activeSessions, storeData, disk, abortSignalled, clearPc, clearedSince>>
  /\ UNCHANGED rewindReply
  /\ UNCHANGED gateVars
  /\ UNCHANGED streamVars
  /\ UNCHANGED splitVars

\* `await channel.sendTyping()` settles; on success the agent is invoked
H_TypingDone(m, ok) ==
  /\ handler[m].pc = "typing"
  /\ handler' = [handler EXCEPT ![m].pc = IF ok THEN "query" ELSE "sendError"]
  /\ activeSessions' = IF ok THEN getOrCreateSession(activeSessions, handler[m].ch)
                       ELSE activeSessions
  /\ UNCHANGED <<storeData, disk, abortSignalled, clearPc, clearedSince>>
  /\ UNCHANGED rewindReply
  /\ UNCHANGED gateVars
  /\ UNCHANGED streamVars
  /\ UNCHANGED splitVars

\* mutant: the history push is made before the record is set
SessionInit_PushFirst(m, h, saveOk) ==
  /\ handler[m].pc = "query"
  /\ handler[m].inits < MaxInits
  /\ LET c == handler[m].ch IN
     /\ handler' = [handler EXCEPT ![m].inits = @ + 1]
     /\ activeSessions' = [activeSessions EXCEPT ![c].sdkSessionId = h]
     /\ storeData' = setSessionId(pushMessageHistory(storeData, c, h), c, h)
     /\ save(storeData', saveOk)
  /\ UNCHANGED <<abortSignalled, clearPc, clearedSince>>
  /\ UNCHANGED rewindReply
  /\ UNCHANGED gateVars
  /\ UNCHANGED streamVars
  /\ UNCHANGED splitVars

\* the onSessionInit callback of queryAndStreamWithImages
SessionInit(m, h, saveOk) ==
  /\ handler[m].pc = "query"
  /\ handler[m].inits < MaxInits
  /\ LET c == handler[m].ch IN
     /\ handler' = [handler EXCEPT ![m].inits = @ + 1]
     /\ activeSessions' = [activeSessions EXCEPT ![c].sdkSessionId = h]
     /\ storeData' = pushMessageHistory(setSessionId(storeData, c, h), c, h)
     /\ save(storeData', saveOk)
  /\ UNCHANGED <<abortSignalled, clearPc, clearedSince>>
  /\ UNCHANGED rewindReply
  /\ UNCHANGED gateVars
  /\ UNCHANGED streamVars
  /\ UNCHANGED splitVars

\* the agent's event stream ends; queryAndStreamWithImages returns
AgentEnd(m) ==
  /\ handler[m].pc = "query"
  /\ handler' = [handler EXCEPT ![m].pc = "finalize"]
  /\ UNCHANGED <<activeSessions, storeData, disk, abortSignalled, clearPc, clearedSince>>
  /\ UNCHANGED rewindReply
  /\ UNCHANGED gateVars
  /\ UNCHANGED streamVars
  /\ UNCHANGED splitVars

\* mutant: the AbortError reaches the handler's catch as any other error
AgentAbort_Reported(m) ==
  /\ handler[m].pc = "query"
  /\ handler' = [handler EXCEPT ![m].pc = "sendError", ![m].aborted = TRUE]
  /\ UNCHANGED <<activeSessions, storeData, disk, abortSignalled, clearPc, clearedSince>>
  /\ UNCHANGED rewindReply
  /\ UNCHANGED gateVars
  /\ UNCHANGED streamVars
  /\ UNCHANGED splitVars

\* the agent's event stream throws AbortError: queryWithMessage catches it
\* and returns, queryAndStreamWithImages returns
AgentAbort(m) ==
  /\ handler[m].pc = "query"
  /\ handler' = [handler EXCEPT ![m].pc = "finalize", ![m].aborted = TRUE]
  /\ UNCHANGED <<activeSessions, storeData, disk, abortSignalled, clearPc, clearedSince>>
  /\ UNCHANGED rewindReply
  /\ UNCHANGED gateVars
  /\ UNCHANGED streamVars
  /\ UNCHANGED splitVars

\* processImages, setStatus or the construction of the updater throws: the
\* statement is outside the inner try, only the outer finally runs, and
\* handleMessage rejects
H_SetupFails(m) ==
  /\ handler[m].pc = "images"
  /\ handler' = [handler EXCEPT ![m].pc = "done", ![m].rejection = listenerRejected(FALSE)]
  /\ UNCHANGED <<activeSessions, storeData, disk, abortSignalled, clearPc, clearedSince>>
  /\ UNCHANGED rewindReply
  /\ UNCHANGED gateVars
  /\ UNCHANGED streamVars
  /\ UNCHANGED splitVars

\* the agent's event stream throws a genuine error
AgentFail(m) ==
  /\ handler[m].pc = "query"
  /\ handler' = [handler EXCEPT ![m].pc = "sendError"]
  /\ UNCHANGED <<activeSessions, storeData, disk, abortSignalled, clearPc, clearedSince>>
  /\ UNCHANGED rewindReply
  /\ UNCHANGED gateVars
  /\ UNCHANGED streamVars
  /\ UNCHANGED splitVars

\* `await updater.finalize()` or `await updater.sendError()` returns; the inner
\* finally clears the flag on the session object the handler holds
H_Finally(m) ==
  /\ handler[m].pc \in {"finalize", "sendError"}
  /\ handler' = [handler EXCEPT ![m].pc = "done"]
  /\ activeSessions' = [activeSessions EXCEPT ![handler[m].ch].isProcessing = FALSE]
  /\ UNCHANGED <<storeData, disk, abortSignalled, clearPc, clearedSince>>
  /\ UNCHANGED rewindReply
  /\ UNCHANGED gateVars
  /\ UNCHANGED streamVars
  /\ UNCHANGED splitVars

\* clearSession after its optional `await deleteSdkSessionFile`
clearMutate(c, saveOk) ==
  /\ activeSessions' =
       IF activeSessions[c].present
       THEN [activeSessions EXCEPT ![c].sdkSessionId = Null, ![c].isProcessing = FALSE]
       ELSE activeSessions
  /\ storeData' = storeClearSession(storeData, c)
  /\ save(storeData', saveOk)
  /\ clearedSince' = [clearedSince EXCEPT ![c] = TRUE]

\* /clear: clearSession up to its first await
ClearStart(c, saveOk) ==
  /\ clearPc[c] = "idle"
  /\ IF activeSessions[c].present /\ activeSessions[c].sdkSessionId # Null
     THEN /\ clearPc' = [clearPc EXCEPT ![c] = "unlink"]
          /\ UNCHANGED <<activeSessions, storeData, disk, clearedSince>>
     ELSE /\ clearMutate(c, saveOk)
          /\ UNCHANGED clearPc
  /\ UNCHANGED <<handler, abortSignalled>>
  /\ UNCHANGED rewindReply
  /\ UNCHANGED gateVars
  /\ UNCHANGED streamVars
  /\ UNCHANGED splitVars

\* what unlink of the SDK session file can answer: done, ENOENT, other error
UnlinkOutcomes == {"deleted", "ENOENT", "error"}

\* mutant: deleteSdkSessionFile rethrows every error but ENOENT
ClearFinish_Rethrow(c, unlinkOutcome, saveOk) ==
  /\ clearPc[c] = "unlink"
  /\ clearPc' = [clearPc EXCEPT ![c] = "idle"]
  /\ IF unlinkOutcome = "error"
     THEN UNCHANGED <<activeSessions, storeData, disk, clearedSince>>
     ELSE clearMutate(c, saveOk)
  /\ UNCHANGED <<handler, abortSignalled>>
  /\ UNCHANGED rewindReply
  /\ UNCHANGED gateVars
  /\ UNCHANGED streamVars
  /\ UNCHANGED splitVars

\* /clear: the unlink of the SDK session file settles; deleteSdkSessionFile
\* catches every error, so clearSession goes on whatever the outcome
ClearFinish(c, unlinkOutcome, saveOk) ==
  /\ clearPc[c] = "unlink"
  /\ clearPc' = [clearPc EXCEPT ![c] = "idle"]
  /\ clearMutate(c, saveOk)
  /\ UNCHANGED <<handler, abortSignalled>>
  /\ UNCHANGED rewindReply
  /\ UNCHANGED gateVars
  /\ UNCHANGED streamVars
  /\ UNCHANGED splitVars

NoReply == [success |-> FALSE, count |-> 0, rewoundTo |-> Null, messagesRemoved |-> 0]

\* /rewind on a conversation without a handle: rewindSession returns at once
RewindRefused(c, count) ==
  /\ ~(activeSessions[c].present /\ activeSessions[c].sdkSessionId # Null)
  /\ rewindReply' = [success |-> FALSE, count |-> count, rewoundTo |-> Null,
                     messagesRemoved |-> 0]
  /\ rewindReply' # rewindReply
  /\ UNCHANGED <<activeSessions, storeData, disk, handler, abortSignalled, clearPc,
                 clearedSince>>
  /\ UNCHANGED gateVars
  /\ UNCHANGED streamVars
  /\ UNCHANGED splitVars

\* mutant: a failed save is rethrown, so rewindSession returns nothing
RewindSession_SaveThrows(c, count, saveOk) ==
  /\ activeSessions[c].present
  /\ activeSessions[c].sdkSessionId # Null
  /\ LET rewound == rewindMessageHistory(storeData, c, count)
         newSessionId == rewindResult(rewound, c)
     IN /\ IF newSessionId # Null
           THEN /\ activeSessions' = [activeSessions EXCEPT ![c].sdkSessionId = newSessionId]
                /\ storeData' = setSessionId(rewound, c, newSessionId)
           ELSE /\ activeSessions' = [activeSessions EXCEPT ![c].sdkSessionId = Null]
                /\ storeData' = storeClearSession(rewound, c)
        /\ rewindReply' =
             IF saveOk
             THEN [success |-> TRUE, count |-> count, rewoundTo |-> newSessionId,
                   messagesRemoved |-> getMessageCount(storeData, c)
                                         - getMessageCount(rewound, c)]
             ELSE rewindReply
  /\ save(storeData', saveOk)
  /\ UNCHANGED <<handler, abortSignalled, clearPc, clearedSince>>
  /\ UNCHANGED gateVars
  /\ UNCHANGED streamVars
  /\ UNCHANGED splitVars

\* /rewind: rewindSession(c, count)
RewindSession(c, count, saveOk) ==
  /\ activeSessions[c].present
  /\ activeSessions[c].sdkSessionId # Null
  /\ LET beforeCount == getMessageCount(storeData, c)
         rewound == rewindMessageHistory(storeData, c, count)
         newSessionId == rewindResult(rewound, c)
         afterCount == getMessageCount(rewound, c)
     IN /\ IF newSessionId # Null
           THEN /\ activeSessions' = [activeSessions EXCEPT ![c].sdkSessionId = newSessionId]
                /\ storeData' = setSessionId(rewound, c, newSessionId)
           ELSE /\ activeSessions' = [activeSessions EXCEPT ![c].sdkSessionId = Null]
                /\ storeData' = storeClearSession(rewound, c)
        /\ rewindReply' = [success |-> TRUE, count |-> count, rewoundTo |-> newSessionId,
                           messagesRemoved |-> beforeCount - afterCount]
  /\ save(storeData', saveOk)
  /\ UNCHANGED <<handler, abortSignalled, clearPc, clearedSince>>
  /\ UNCHANGED gateVars
  /\ UNCHANGED streamVars
  /\ UNCHANGED splitVars

(* Approval gate (PermissionHook).                                         *)
(***************************************************************************)
NoHook == [pc |-> "unused", ch |-> "c1", tool |-> "Bash",
           decision |-> "none", reason |-> "none"]

NoEvent == [kind |-> "none", value |-> FALSE, aff |-> FALSE]

\* the id under which request k is registered
toolUseId(k) == toolUseIds[k]

\* the requests that have an entry in the registry
Registered == {k \in Reqs : pendingApprovals[toolUseId(k)] = k}

BoolStr(b) == IF b THEN "true" ELSE "false"

\* mutant: the resolver is a plain callback, the last call wins
settle_LastWins(p, v) == IF p = "none" THEN p ELSE v

\* a promise settles once; later calls of its resolve function do nothing
settle(p, v) == IF p = "pending" THEN v ELSE p

\* the value PendingApproval.resolve passes on to the promise
resolveValue(approved) == approved

\* the footer PendingApproval.resolve writes into the embed
resolveEdit(approved) == IF approved THEN "approved" ELSE "denied"

\* mutant: the hook allows whatever the approval promise yields
hookDecision_AlwaysAllow(approved) == "allow"

\* the decision the hook returns for the value of the approval promise
hookDecision(approved) == IF approved THEN "allow" ELSE "deny"

\* The hook handler after `await this.requestApproval(...)`: it resumes in the
\* turn of the event loop in which the promise settles, so it is part of the
\* segment that settles it. h is the hook record, before and after are the
\* promise before and after that segment.
hookResume(h, before, after) ==
  IF h.pc = "pending" /\ before = "pending" /\ after # "pending"
  THEN [h EXCEPT !.pc = "returned",
                 !.decision = hookDecision(after = "true"),
                 !.reason = IF after = "true" THEN "none" ELSE "user_denied"]
  ELSE h

\* The first resolution event of request k is kept, for the properties: what
\* fired, the decision it carried, and for a reaction decision whether a
\* fallback reaction was attached by then.
noteFired(k, kind, value) ==
  IF fired[k].kind = "none"
  THEN [kind |-> kind, value |-> value, aff |-> kind = "reaction" /\ reactions[k] > 0]
  ELSE fired[k]

\* the PreToolUse hook up to its first await
HookCall(k, m, tool, resolvable) ==
  /\ hook[k].pc = "unused"
  /\ \A j \in Reqs : j < k => hook[j].pc # "unused"
  /\ handler[m].pc = "query"
  /\ hook' = [hook EXCEPT ![k] =
       IF tool \notin dangerousTools
       THEN [pc |-> "returned", ch |-> handler[m].ch, tool |-> tool,
             decision |-> "allow", reason |-> "none"]
       ELSE IF ~resolvable
       THEN [pc |-> "returned", ch |-> handler[m].ch, tool |-> tool,
             decision |-> "deny", reason |-> "channel_not_found"]
       ELSE [pc |-> "sending", ch |-> handler[m].ch, tool |-> tool,
             decision |-> "none", reason |-> "none"]]
  /\ UNCHANGED <<published, pendingApprovals, timer, promise, fired, uiEdits,
                 reactQueue, reactions, btnInFlight, cancelFetch, lostDecision>>
  /\ UNCHANGED toolUseIds
  /\ UNCHANGED sessionVars
  /\ UNCHANGED streamVars
  /\ UNCHANGED splitVars

\* Discord creates the approval message: its buttons can be clicked from now on
SendPublished(k) ==
  /\ hook[k].pc = "sending"
  /\ ~published[k]
  /\ published' = [published EXCEPT ![k] = TRUE]
  /\ UNCHANGED <<hook, pendingApprovals, timer, promise, fired, uiEdits,
                 reactQueue, reactions, btnInFlight, cancelFetch, lostDecision>>
  /\ UNCHANGED toolUseIds
  /\ UNCHANGED sessionVars
  /\ UNCHANGED streamVars
  /\ UNCHANGED splitVars

\* `await channel.send` rejects: requestApproval and the hook handler throw
SendFails(k) ==
  /\ hook[k].pc = "sending"
  /\ ~published[k]
  /\ hook' = [hook EXCEPT ![k].pc = "threw"]
  /\ UNCHANGED <<published, pendingApprovals, timer, promise, fired, uiEdits,
                 reactQueue, reactions, btnInFlight, cancelFetch, lostDecision>>
  /\ UNCHANGED toolUseIds
  /\ UNCHANGED sessionVars
  /\ UNCHANGED streamVars
  /\ UNCHANGED splitVars

\* mutant: the reactions are requested and awaited before the registry entry
\* is made
RequestApprovalResume_ReactFirst(k) ==
  /\ hook[k].pc = "sending"
  /\ published[k]
  /\ IF reactQueue[k] = 0 /\ reactions[k] = 0
     THEN /\ reactQueue' = [reactQueue EXCEPT ![k] = 2]
          /\ UNCHANGED <<hook, timer, promise, pendingApprovals>>
     ELSE /\ reactQueue[k] = 0
          /\ hook' = [hook EXCEPT ![k].pc = "pending"]
          /\ timer' = [timer EXCEPT ![k] = "armed"]
          /\ promise' = [promise EXCEPT ![k] = "pending"]
          /\ pendingApprovals' = [pendingApprovals EXCEPT ![toolUseId(k)] = k]
          /\ UNCHANGED reactQueue
  /\ UNCHANGED <<published, fired, uiEdits, reactions, btnInFlight, cancelFetch,
                 lostDecision>>
  /\ UNCHANGED toolUseIds
  /\ UNCHANGED sessionVars
  /\ UNCHANGED streamVars
  /\ UNCHANGED splitVars

\* requestApproval after `await channel.send`: timer, registry entry, then the
\* two fire-and-forget react calls
RequestApprovalResume(k) ==
  /\ hook[k].pc = "sending"
  /\ published[k]
  /\ hook' = [hook EXCEPT ![k].pc = "pending"]
  /\ timer' = [timer EXCEPT ![k] = "armed"]
  /\ promise' = [promise EXCEPT ![k] = "pending"]
  /\ pendingApprovals' = [pendingApprovals EXCEPT ![toolUseId(k)] = k]
  /\ reactQueue' = [reactQueue EXCEPT ![k] = 2]
  /\ UNCHANGED <<published, fired, uiEdits, reactions, btnInFlight, cancelFetch,
                 lostDecision>>
  /\ UNCHANGED toolUseIds
  /\ UNCHANGED sessionVars
  /\ UNCHANGED streamVars
  /\ UNCHANGED splitVars

\* Discord attaches one of the requested reactions. (A react call that is
\* rejected is swallowed by .catch and leaves the reaction unattached, as it
\* is in every state before this step.)
ReactSettled(k) ==
  /\ reactQueue[k] > 0
  /\ reactQueue' = [reactQueue EXCEPT ![k] = @ - 1]
  /\ reactions' = [reactions EXCEPT ![k] = @ + 1]
  /\ UNCHANGED <<hook, published, pendingApprovals, timer, promise, fired, uiEdits,
                 btnInFlight, cancelFetch, lostDecision>>
  /\ UNCHANGED toolUseIds
  /\ UNCHANGED sessionVars
  /\ UNCHANGED streamVars
  /\ UNCHANGED splitVars

\* a request whose hook call still waits for a decision
Unresolved(k) ==
  /\ hook[k].pc \in {"sending", "pending"}
  /\ promise[k] \in {"none", "pending"}

\* A decision reaches the bot and finds no registry entry. It is recorded when
\* the request is unresolved and a fallback reaction is already attached.
lose(k) ==
  [lostDecision EXCEPT ![k] = @ \/ (Unresolved(k) /\ reactions[k] > 0)]

\* PendingApproval.resolve(approved) of request k, called by event `kind`
PendingResolve(k, approved, kind) ==
  /\ timer' = [timer EXCEPT ![k] = IF @ = "armed" THEN "cleared" ELSE @]
  /\ pendingApprovals' = [pendingApprovals EXCEPT ![toolUseId(k)] = 0]
  /\ uiEdits' = [uiEdits EXCEPT ![k] = Append(@, resolveEdit(approved))]
  /\ promise' = [promise EXCEPT ![k] = settle(@, BoolStr(resolveValue(approved)))]
  /\ fired' = [fired EXCEPT ![k] = noteFired(k, kind, approved)]
  /\ hook' = [hook EXCEPT ![k] = hookResume(@, promise[k], promise'[k])]

\* handleButtonInteraction up to `await interaction.deferUpdate()`: a button of
\* the message of request k is clicked, the registry is looked up under the
\* id in the button, and the entry found (of request owner) is kept
ButtonClick(k, approve) ==
  /\ published[k]
  /\ LET owner == pendingApprovals[toolUseId(k)] IN
     IF owner = 0
     THEN /\ lostDecision' = lose(k)
          /\ lostDecision' # lostDecision
          /\ UNCHANGED btnInFlight
     ELSE /\ approve \notin btnInFlight[owner]
          /\ btnInFlight' = [btnInFlight EXCEPT ![owner] = @ \cup {approve}]
          /\ UNCHANGED lostDecision
  /\ UNCHANGED <<hook, published, pendingApprovals, timer, promise, fired, uiEdits,
                 reactQueue, reactions, cancelFetch>>
  /\ UNCHANGED toolUseIds
  /\ UNCHANGED sessionVars
  /\ UNCHANGED streamVars
  /\ UNCHANGED splitVars

\* deferUpdate settles; on success the handler calls resolve of the entry it
\* found, that of request k
ButtonDeferred(k, approve, ok) ==
  /\ approve \in btnInFlight[k]
  /\ btnInFlight' = [btnInFlight EXCEPT ![k] = @ \ {approve}]
  /\ IF ok
     THEN PendingResolve(k, approve, "button")
     ELSE UNCHANGED <<hook, pendingApprovals, timer, promise, fired, uiEdits>>
  /\ UNCHANGED <<published, reactQueue, reactions, cancelFetch, lostDecision>>
  /\ UNCHANGED toolUseIds
  /\ UNCHANGED sessionVars
  /\ UNCHANGED streamVars
  /\ UNCHANGED splitVars

\* handleReaction(messageId of request k, check mark or cross)
ReactionDecision(k, approve) ==
  /\ published[k]
  /\ IF k \in Registered
     THEN /\ PendingResolve(k, approve, "reaction")
          /\ UNCHANGED lostDecision
     ELSE /\ lostDecision' = lose(k)
          /\ lostDecision' # lostDecision
          /\ UNCHANGED <<hook, pendingApprovals, timer, promise, fired, uiEdits>>
  /\ UNCHANGED <<published, reactQueue, reactions, btnInFlight, cancelFetch>>
  /\ UNCHANGED toolUseIds
  /\ UNCHANGED sessionVars
  /\ UNCHANGED streamVars
  /\ UNCHANGED splitVars

\* mutant: the timeout callback leaves the registry entry in place
TimeoutFires_KeepsEntry(k) ==
  /\ timer[k] = "armed"
  /\ timer' = [timer EXCEPT ![k] = "fired"]
  /\ uiEdits' = [uiEdits EXCEPT ![k] = Append(@, "timeout")]
  /\ promise' = [promise EXCEPT ![k] = settle(@, "false")]
  /\ fired' = [fired EXCEPT ![k] = noteFired(k, "timeout", FALSE)]
  /\ hook' = [hook EXCEPT ![k] = hookResume(@, promise[k], promise'[k])]
  /\ UNCHANGED <<published, pendingApprovals, reactQueue, reactions, btnInFlight,
                 cancelFetch, lostDecision>>
  /\ UNCHANGED toolUseIds
  /\ UNCHANGED sessionVars
  /\ UNCHANGED streamVars
  /\ UNCHANGED splitVars

\* the setTimeout callback of requestApproval
TimeoutFires(k) ==
  /\ timer[k] = "armed"
  /\ timer' = [timer EXCEPT ![k] = "fired"]
  /\ pendingApprovals' = [pendingApprovals EXCEPT ![toolUseId(k)] = 0]
  /\ uiEdits' = [uiEdits EXCEPT ![k] = Append(@, "timeout")]
  /\ promise' = [promise EXCEPT ![k] = settle(@, "false")]
  /\ fired' = [fired EXCEPT ![k] = noteFired(k, "timeout", FALSE)]
  /\ hook' = [hook EXCEPT ![k] = hookResume(@, promise[k], promise'[k])]
  /\ UNCHANGED <<published, reactQueue, reactions, btnInFlight, cancelFetch,
                 lostDecision>>
  /\ UNCHANGED toolUseIds
  /\ UNCHANGED sessionVars
  /\ UNCHANGED streamVars
  /\ UNCHANGED splitVars

\* mutant: the loop does not skip the entries of other conversations
cancelTargets_AllChannels(c) == Registered

\* the registry entries cancelPendingApprovals(c) visits
cancelTargets(c) == {k \in Registered : hook[k].ch = c}

\* the body of cancelPendingApprovals' loop, for the entries S it visits
cancelEntries(S, resolvable) ==
  /\ timer' = [k \in Reqs |-> IF k \in S /\ timer[k] = "armed" THEN "cleared" ELSE timer[k]]
  /\ pendingApprovals' = [i \in Reqs |-> IF pendingApprovals[i] \in S THEN 0
                                         ELSE pendingApprovals[i]]
  /\ cancelFetch' = [k \in Reqs |-> IF k \in S /\ resolvable THEN TRUE ELSE cancelFetch[k]]
  /\ uiEdits' = [k \in Reqs |-> IF k \in S THEN Append(uiEdits[k], resolveEdit(FALSE))
                                ELSE uiEdits[k]]
  /\ promise' = [k \in Reqs |-> IF k \in S
                                THEN settle(promise[k], BoolStr(resolveValue(FALSE)))
                                ELSE promise[k]]
  /\ fired' = [k \in Reqs |-> IF k \in S THEN noteFired(k, "cancel", FALSE)
                              ELSE fired[k]]
  /\ hook' = [k \in Reqs |-> IF k \in S THEN hookResume(hook[k], promise[k], promise'[k])
                             ELSE hook[k]]
  /\ UNCHANGED <<published, reactQueue, reactions, btnInFlight, lostDecision>>
  /\ UNCHANGED toolUseIds
  /\ UNCHANGED sessionVars
  /\ UNCHANGED streamVars
  /\ UNCHANGED splitVars

\* mutant: the loop stops after the first entry of the conversation
CancelPendingApprovals_FirstOnly(c, resolvable) ==
  LET S == cancelTargets(c) IN
  /\ S # {}
  /\ cancelEntries({CHOOSE k \in S : \A j \in S : k <= j}, resolvable)

\* cancelPendingApprovals(c); a call that finds no entry does nothing
CancelPendingApprovals(c, resolvable) ==
  /\ cancelTargets(c) # {}
  /\ cancelEntries(cancelTargets(c), resolvable)

\* the message fetch of cancelPendingApprovals settles; on success the
\* cancelled embed is written
CancelFetchDone(k, ok) ==
  /\ cancelFetch[k]
  /\ cancelFetch' = [cancelFetch EXCEPT ![k] = FALSE]
  /\ uiEdits' = [uiEdits EXCEPT ![k] = IF ok THEN Append(@, "cancelled") ELSE @]
  /\ UNCHANGED <<hook, published, pendingApprovals, timer, promise, fired,
                 reactQueue, reactions, btnInFlight, lostDecision>>
  /\ UNCHANGED toolUseIds
  /\ UNCHANGED sessionVars
  /\ UNCHANGED streamVars
  /\ UNCHANGED splitVars

(***************************************************************************)
(* Streaming coordinator (ChunkedUpdater).                                 *)
(*                                                                         *)
(* One handleMessage execution and its updater.  Time is counted in ticks  *)
(* of 1000 ms; content is counted in units of which maxMessageLength fit   *)
(* into one Discord message.  A timer fires at its due time or later, a    *)
(* request to Discord takes any time.                                      *)
(***************************************************************************)
updateIntervalMs == 3
rateLimitBackoffMs == 1
maxMessageLength == 2
NoTime == 0 - 1
FlushOutcomes == {"ok", "rateLimit", "error"}

Max(a, b) == IF a >= b THEN a ELSE b

\* the backoff of flushUpdate after the k-th rate limit in a row
backoffDelay_Flat(k) == rateLimitBackoffMs

backoffDelay(k) == rateLimitBackoffMs * 2 ^ (k - 1)

\* splitMessage on content without a natural boundary: hard splits
chunks(len) ==
  IF len <= maxMessageLength THEN 1
  ELSE (len + maxMessageLength - 1) \div maxMessageLength

\* the length of chunk i of splitMessage, counted from 0
chunkLength(len, i) ==
  IF len - i * maxMessageLength <= maxMessageLength THEN len - i * maxMessageLength
  ELSE maxMessageLength

\* lengths of the continuation indicator and of the formatted error text,
\* each rounded up to one unit
indicatorLength == 1
errorLength == 1

\* What a message shows: kind says who wrote it, text how many units of the
\* buffer it shows from position from on, err how many units of the error
\* text, more whether it ends with the continuation indicator.
NoMessage == [kind |-> "none", from |-> 0, text |-> 0, err |-> 0, more |-> FALSE]

\* formatStreamingMessage(content, maxLength, false)
formatStreamingMessage(len) ==
  IF len <= maxMessageLength
  THEN [kind |-> "stream", from |-> 0, text |-> len, err |-> 0, more |-> FALSE]
  ELSE [kind |-> "stream", from |-> 0, text |-> maxMessageLength - indicatorLength,
        err |-> 0, more |-> TRUE]

\* chunk i of finalize
finalChunk(len, i) ==
  [kind |-> "final", from |-> i * maxMessageLength, text |-> chunkLength(len, i),
   err |-> 0, more |-> FALSE]

\* the content of sendError: the buffer, then the error, cut at the limit
\* when it edits; the error alone when it replies
errorContent(len, edits) ==
  IF edits
  THEN [kind |-> "error", from |-> 0,
        text |-> IF len <= maxMessageLength THEN len ELSE maxMessageLength,
        err |-> IF len >= maxMessageLength THEN 0
                ELSE IF len + errorLength <= maxMessageLength THEN errorLength
                ELSE maxMessageLength - len,
        more |-> FALSE]
  ELSE [kind |-> "error", from |-> 0, text |-> 0, err |-> errorLength, more |-> FALSE]

\* scheduleUpdate called when lastUpdateTime is last; n is the number of
\* appendContent calls the call stands for
scheduleUpdate_NoGuard(last, n) ==
  /\ updateTimer' = TRUE
  /\ timers' = Append(timers, now + Max(0, updateIntervalMs - (now - last)))
  /\ windowAppends' = n

scheduleUpdate(last, n) ==
  IF updateTimer
  THEN /\ UNCHANGED <<updateTimer, timers>>
       /\ windowAppends' = IF windowAppends + n > 2 THEN 2 ELSE windowAppends + n
  ELSE /\ updateTimer' = TRUE
       /\ timers' = Append(timers, now + Max(0, updateIntervalMs - (now - last)))
       /\ windowAppends' = n

\* flushUpdate up to its await, called when the buffer holds buffer units
flushUpdate(buffer) ==
  IF buffer = 0 \/ isEditing
  THEN /\ pendingUpdate' = TRUE
       /\ UNCHANGED <<isEditing, flushPc, inFlight, flushStart, contentToSend>>
  ELSE /\ contentToSend' = buffer
       /\ isEditing' = TRUE
       /\ pendingUpdate' = FALSE
       /\ flushPc' = "sending"
       /\ inFlight' = inFlight + 1
       /\ flushStart' = now

\* the finally block of flushUpdate
flushFinally_NoReschedule(pending, last) ==
  /\ isEditing' = FALSE
  /\ flushPc' = "idle"
  /\ UNCHANGED <<updateTimer, timers, windowAppends>>

flushFinally(pending, last) ==
  /\ isEditing' = FALSE
  /\ flushPc' = "idle"
  /\ IF pending /\ contentBuffer # 0
     THEN scheduleUpdate(last, 0)
     ELSE UNCHANGED <<updateTimer, timers, windowAppends>>

appendContent ==
  /\ streamPc = "streaming"
  /\ contentBuffer < MaxBuffer
  /\ contentBuffer' = contentBuffer + 1
  /\ scheduleUpdate(lastUpdateTime, 1)
  /\ UNCHANGED <<now, streamPc, currentMessage, lastUpdateTime, isEditing, pendingUpdate,
                 consecutiveRateLimits, flushPc, backoffDue, backoff, chunkIndex, inFlight,
                 flushStart, lastGoodStart>>
  /\ UNCHANGED <<contentToSend, flushed, callerEdits, streamed, others, finalFailed>>
  /\ UNCHANGED sessionVars
  /\ UNCHANGED gateVars
  /\ UNCHANGED splitVars

\* the tool marker is appended and flushUpdate is called, not awaited
onToolUse ==
  /\ streamPc = "streaming"
  /\ contentBuffer < MaxBuffer
  /\ contentBuffer' = contentBuffer + 1
  /\ flushUpdate(contentBuffer')
  /\ UNCHANGED <<now, streamPc, currentMessage, lastUpdateTime, updateTimer, timers,
                 consecutiveRateLimits, backoffDue, backoff, chunkIndex, lastGoodStart,
                 windowAppends>>
  /\ UNCHANGED <<flushed, callerEdits, streamed, others, finalFailed>>
  /\ UNCHANGED sessionVars
  /\ UNCHANGED gateVars
  /\ UNCHANGED splitVars

\* the callback of the i-th armed timer runs
TimerCallback(i) ==
  /\ i \in 1..Len(timers)
  /\ timers[i] <= now
  /\ timers' = SubSeq(timers, 1, i - 1) \o SubSeq(timers, i + 1, Len(timers))
  /\ updateTimer' = FALSE
  /\ flushUpdate(contentBuffer)
  /\ UNCHANGED <<now, streamPc, currentMessage, contentBuffer, lastUpdateTime,
                 consecutiveRateLimits, backoffDue, backoff, chunkIndex, lastGoodStart,
                 windowAppends>>
  /\ UNCHANGED <<flushed, callerEdits, streamed, others, finalFailed>>
  /\ UNCHANGED sessionVars
  /\ UNCHANGED gateVars
  /\ UNCHANGED splitVars

\* the reply or edit of flushUpdate settles
FlushSettles(outcome) ==
  /\ flushPc = "sending"
  /\ inFlight' = inFlight - 1
  /\ CASE outcome = "ok" ->
            /\ currentMessage' = TRUE
            /\ lastUpdateTime' = now
            /\ consecutiveRateLimits' = 0
            /\ lastGoodStart' = flushStart
            /\ flushed' = contentToSend
            /\ streamed' = formatStreamingMessage(contentToSend)
            /\ flushFinally(pendingUpdate, now)
            /\ UNCHANGED <<pendingUpdate, backoffDue, backoff>>
       [] outcome = "rateLimit" ->
            /\ consecutiveRateLimits < MaxRateLimits
            /\ consecutiveRateLimits' = consecutiveRateLimits + 1
            /\ flushPc' = "backoff"
            /\ backoff' = backoffDelay(consecutiveRateLimits')
            /\ backoffDue' = now + backoff'
            /\ UNCHANGED <<currentMessage, lastUpdateTime, lastGoodStart, isEditing,
                           pendingUpdate, updateTimer, timers, windowAppends, flushed,
                           streamed>>
       [] outcome = "error" ->
            /\ flushFinally(pendingUpdate, lastUpdateTime)
            /\ UNCHANGED <<currentMessage, lastUpdateTime, lastGoodStart,
                           consecutiveRateLimits, pendingUpdate, backoffDue, backoff,
                           flushed, streamed>>
  /\ UNCHANGED <<now, streamPc, contentBuffer, chunkIndex, flushStart>>
  /\ UNCHANGED <<contentToSend, callerEdits, others, finalFailed>>
  /\ UNCHANGED sessionVars
  /\ UNCHANGED gateVars
  /\ UNCHANGED splitVars

\* the rate-limit sleep of flushUpdate ends
BackoffDone ==
  /\ flushPc = "backoff"
  /\ backoffDue <= now
  /\ pendingUpdate' = TRUE
  /\ flushFinally(TRUE, lastUpdateTime)
  /\ UNCHANGED <<now, streamPc, currentMessage, contentBuffer, lastUpdateTime,
                 consecutiveRateLimits, backoffDue, backoff, chunkIndex, inFlight, flushStart,
                 lastGoodStart>>
  /\ UNCHANGED <<contentToSend, flushed, callerEdits, streamed, others, finalFailed>>
  /\ UNCHANGED sessionVars
  /\ UNCHANGED gateVars
  /\ UNCHANGED splitVars

\* finalize past its wait loop: the first final send, or nothing to send
sendFinal ==
  IF contentBuffer = 0
  THEN /\ streamPc' = "done"
       /\ UNCHANGED <<chunkIndex, inFlight, callerEdits>>
  ELSE /\ streamPc' = "fin_sending"
       /\ chunkIndex' = 0
       /\ callerEdits' = currentMessage
       /\ inFlight' = inFlight + 1

\* the agent's stream ended and handleMessage calls finalize
finalize_NoWait ==
  /\ streamPc = "streaming"
  /\ IF updateTimer
     THEN /\ timers' = SubSeq(timers, 1, Len(timers) - 1)
          /\ updateTimer' = FALSE
     ELSE UNCHANGED <<timers, updateTimer>>
  /\ sendFinal
  /\ UNCHANGED <<now, currentMessage, contentBuffer, lastUpdateTime, isEditing,
                 pendingUpdate, consecutiveRateLimits, flushPc, backoffDue, backoff, flushStart,
                 lastGoodStart, windowAppends>>
  /\ UNCHANGED <<contentToSend, flushed, streamed, others, finalFailed>>
  /\ UNCHANGED sessionVars
  /\ UNCHANGED gateVars
  /\ UNCHANGED splitVars

finalize ==
  /\ streamPc = "streaming"
  /\ IF updateTimer
     THEN /\ timers' = SubSeq(timers, 1, Len(timers) - 1)
          /\ updateTimer' = FALSE
     ELSE UNCHANGED <<timers, updateTimer>>
  /\ IF isEditing
     THEN /\ streamPc' = "fin_waiting"
          /\ UNCHANGED <<chunkIndex, inFlight, callerEdits>>
     ELSE sendFinal
  /\ UNCHANGED <<now, currentMessage, contentBuffer, lastUpdateTime, isEditing,
                 pendingUpdate, consecutiveRateLimits, flushPc, backoffDue, backoff, flushStart,
                 lastGoodStart, windowAppends>>
  /\ UNCHANGED <<contentToSend, flushed, streamed, others, finalFailed>>
  /\ UNCHANGED sessionVars
  /\ UNCHANGED gateVars
  /\ UNCHANGED splitVars

\* a sleep(100) of finalize's wait loop ends and finds no edit in progress
\* (one that finds isEditing set sleeps again and changes nothing)
FinalizePoll ==
  /\ streamPc = "fin_waiting"
  /\ ~isEditing
  /\ sendFinal
  /\ UNCHANGED <<now, currentMessage, contentBuffer, lastUpdateTime, updateTimer, timers,
                 isEditing, pendingUpdate, consecutiveRateLimits, flushPc, backoffDue, backoff,
                 flushStart, lastGoodStart, windowAppends>>
  /\ UNCHANGED <<contentToSend, flushed, streamed, others, finalFailed>>
  /\ UNCHANGED sessionVars
  /\ UNCHANGED gateVars
  /\ UNCHANGED splitVars

\* a final send settles; a failure is logged and the loop goes on
FinalizeSendSettles(ok) ==
  /\ streamPc = "fin_sending"
  /\ inFlight' = inFlight - 1
  /\ IF ~ok
     THEN finalFailed' = TRUE /\ UNCHANGED <<streamed, others>>
     ELSE /\ UNCHANGED finalFailed
          /\ IF callerEdits
             THEN /\ streamed' = finalChunk(contentBuffer, chunkIndex)
                  /\ UNCHANGED others
             ELSE /\ others' = Append(others, finalChunk(contentBuffer, chunkIndex))
                  /\ UNCHANGED streamed
  /\ streamPc' = IF chunkIndex < chunks(contentBuffer) - 1 THEN "fin_pause" ELSE "done"
  /\ UNCHANGED <<now, currentMessage, contentBuffer, lastUpdateTime, updateTimer, timers,
                 isEditing, pendingUpdate, consecutiveRateLimits, flushPc, backoffDue, backoff,
                 chunkIndex, flushStart, lastGoodStart, windowAppends>>
  /\ UNCHANGED <<contentToSend, flushed, callerEdits>>
  /\ UNCHANGED sessionVars
  /\ UNCHANGED gateVars
  /\ UNCHANGED splitVars

\* the sleep(500) between two chunks ends and the next chunk is sent
FinalizePauseDone ==
  /\ streamPc = "fin_pause"
  /\ chunkIndex' = chunkIndex + 1
  /\ callerEdits' = FALSE
  /\ inFlight' = inFlight + 1
  /\ streamPc' = "fin_sending"
  /\ UNCHANGED <<now, currentMessage, contentBuffer, lastUpdateTime, updateTimer, timers,
                 isEditing, pendingUpdate, consecutiveRateLimits, flushPc, backoffDue, backoff,
                 flushStart, lastGoodStart, windowAppends>>
  /\ UNCHANGED <<contentToSend, flushed, streamed, others, finalFailed>>
  /\ UNCHANGED sessionVars
  /\ UNCHANGED gateVars
  /\ UNCHANGED splitVars

\* sendTyping or the agent's stream threw and handleMessage calls sendError
sendError ==
  /\ streamPc = "streaming"
  /\ streamPc' = "err_sending"
  /\ callerEdits' = currentMessage
  /\ inFlight' = inFlight + 1
  /\ UNCHANGED <<now, currentMessage, contentBuffer, lastUpdateTime, updateTimer, timers,
                 isEditing, pendingUpdate, consecutiveRateLimits, flushPc, backoffDue, backoff,
                 chunkIndex, flushStart, lastGoodStart, windowAppends>>
  /\ UNCHANGED <<contentToSend, flushed, streamed, others, finalFailed>>
  /\ UNCHANGED sessionVars
  /\ UNCHANGED gateVars
  /\ UNCHANGED splitVars

\* the edit or reply of sendError settles; a failure is logged
SendErrorSettles(ok) ==
  /\ streamPc = "err_sending"
  /\ streamPc' = "failed"
  /\ inFlight' = inFlight - 1
  /\ IF ~ok
     THEN UNCHANGED <<streamed, others>>
     ELSE IF callerEdits
          THEN /\ streamed' = errorContent(contentBuffer, TRUE)
               /\ UNCHANGED others
          ELSE /\ others' = Append(others, errorContent(contentBuffer, FALSE))
               /\ UNCHANGED streamed
  /\ UNCHANGED <<now, currentMessage, contentBuffer, lastUpdateTime, updateTimer, timers,
                 isEditing, pendingUpdate, consecutiveRateLimits, flushPc, backoffDue, backoff,
                 chunkIndex, flushStart, lastGoodStart, windowAppends>>
  /\ UNCHANGED <<contentToSend, flushed, callerEdits, finalFailed>>
  /\ UNCHANGED sessionVars
  /\ UNCHANGED gateVars
  /\ UNCHANGED splitVars

\* a tick of the clock
Tick ==
  /\ now < updateIntervalMs + MaxTime
  /\ now' = now + 1
  /\ UNCHANGED <<streamPc, currentMessage, contentBuffer, lastUpdateTime, updateTimer,
                 timers, isEditing, pendingUpdate, consecutiveRateLimits, flushPc,
                 backoffDue, backoff, chunkIndex, inFlight, flushStart, lastGoodStart,
                 windowAppends>>
  /\ UNCHANGED <<contentToSend, flushed, callerEdits, streamed, others, finalFailed>>
  /\ UNCHANGED sessionVars
  /\ UNCHANGED gateVars
  /\ UNCHANGED splitVars

\* a timer or the backoff sleep waits for a later time
Waiting ==
  \/ \E i \in 1..Len(timers) : timers[i] > now
  \/ flushPc = "backoff" /\ backoffDue > now

\* the clock advances while something waits for it
Elapse ==
  /\ Waiting
  /\ now' = now + 1
  /\ UNCHANGED <<streamPc, currentMessage, contentBuffer, lastUpdateTime, updateTimer,
                 timers, isEditing, pendingUpdate, consecutiveRateLimits, flushPc,
                 backoffDue, backoff, chunkIndex, inFlight, flushStart, lastGoodStart,
                 windowAppends>>
  /\ UNCHANGED <<contentToSend, flushed, callerEdits, streamed, others, finalFailed>>
  /\ UNCHANGED sessionVars
  /\ UNCHANGED gateVars
  /\ UNCHANGED splitVars

(***************************************************************************)
(* Message splitter (splitMessage, findSplitPoint).                        *)
(*                                                                         *)
(* A string is a sequence of characters, indexed from 0 as in the source.  *)
(***************************************************************************)
Chars == {"a", ".", " ", "\n"}
whitespace == {" ", "\n"}
Strings == UNION {[1..n -> Chars] : n \in 0..MaxContent}

\* String.prototype.slice(start, end) for 0 <= start
slice(text, start, end) ==
  SubSeq(text, start + 1, IF end <= Len(text) THEN end ELSE Len(text))

RECURSIVE trimEnd(_)
trimEnd(text) ==
  IF text = <<>> THEN <<>>
  ELSE IF text[Len(text)] \in whitespace THEN trimEnd(SubSeq(text, 1, Len(text) - 1))
  ELSE text

RECURSIVE trimStart(_)
trimStart(text) ==
  IF text = <<>> THEN <<>>
  ELSE IF Head(text) \in whitespace THEN trimStart(Tail(text))
  ELSE text

\* searchString occurs in text at index i
occursAt(text, searchString, i) ==
  /\ i >= 0
  /\ i + Len(searchString) <= Len(text)
  /\ \A k \in 1..Len(searchString) : text[i + k] = searchString[k]

\* String.prototype.lastIndexOf(searchString, position): scan downwards
RECURSIVE lastIndexFrom(_, _, _)
lastIndexFrom(text, searchString, i) ==
  IF i < 0 THEN 0 - 1
  ELSE IF occursAt(text, searchString, i) THEN i
  ELSE lastIndexFrom(text, searchString, i - 1)

lastIndexOf(text, searchString, position) ==
  lastIndexFrom(text, searchString,
                IF position <= Len(text) - Len(searchString) THEN position
                ELSE Len(text) - Len(searchString))

sentenceEnders == << <<".", " ">>, <<"!", " ">>, <<"?", " ">>,
                     <<".", "\n">>, <<"!", "\n">>, <<"?", "\n">> >>

\* the loop over sentenceEnders: the greatest index found, -1 if none
RECURSIVE bestSentenceEnd(_, _, _)
bestSentenceEnd(text, limit, n) ==
  IF n = 0 THEN 0 - 1
  ELSE LET best == bestSentenceEnd(text, limit, n - 1)
           index == lastIndexOf(text, sentenceEnders[n], limit)
       IN  IF index > best THEN index ELSE best

\* findSplitPoint with the order of its tests changed: the space first
findSplitPoint_SpaceFirst(text, limit) ==
  LET doubleNewline == lastIndexOf(text, <<"\n", "\n">>, limit)
      newline == lastIndexOf(text, <<"\n">>, limit)
      sentenceEnd == bestSentenceEnd(text, limit, Len(sentenceEnders))
      space == lastIndexOf(text, <<" ">>, limit)
  IN  IF 10 * space > 3 * limit THEN space + 1
      ELSE IF 2 * doubleNewline > limit THEN doubleNewline + 2
      ELSE IF 2 * newline > limit THEN newline + 1
      ELSE IF 10 * sentenceEnd > 3 * limit THEN sentenceEnd + 2
      ELSE limit

\* index > limit * 0.5 is 2 * index > limit, index > limit * 0.3 is
\* 10 * index > 3 * limit
findSplitPoint(text, limit) ==
  LET doubleNewline == lastIndexOf(text, <<"\n", "\n">>, limit)
      newline == lastIndexOf(text, <<"\n">>, limit)
      sentenceEnd == bestSentenceEnd(text, limit, Len(sentenceEnders))
      space == lastIndexOf(text, <<" ">>, limit)
  IN  IF 2 * doubleNewline > limit THEN doubleNewline + 2
      ELSE IF 2 * newline > limit THEN newline + 1
      ELSE IF 10 * sentenceEnd > 3 * limit THEN sentenceEnd + 2
      ELSE IF 10 * space > 3 * limit THEN space + 1
      ELSE limit

\* what is left after the chunk that ends at index
remainder_SkipsOne(remaining, index) == trimStart(slice(remaining, index + 1, Len(remaining)))

remainder(remaining, index) == trimStart(slice(remaining, index, Len(remaining)))

\* mutant: the cut is made one character before the split point
nextRemaining_CutsEarly(remaining, limit) ==
  remainder(remaining, findSplitPoint(remaining, limit) - 1)

\* the value of remaining after one iteration of the loop
nextRemaining(remaining, limit) ==
  remainder(remaining, findSplitPoint(remaining, limit))

\* the while loop of splitMessage
RECURSIVE splitLoop(_, _)
splitLoop(remaining, limit) ==
  IF Len(remaining) = 0 THEN <<>>
  ELSE IF Len(remaining) <= limit THEN <<remaining>>
  ELSE LET index == findSplitPoint(remaining, limit)
       IN  <<trimEnd(slice(remaining, 0, index))>>
             \o splitLoop(nextRemaining(remaining, limit), limit)

splitMessage(text, limit) ==
  IF Len(text) <= limit THEN <<text>> ELSE splitLoop(text, limit)

\* splitMessage(content, maxLength) is called
CallSplitMessage ==
  /\ splitChunks = <<>>
  /\ splitChunks' = splitMessage(content, maxLength)
  /\ UNCHANGED <<content, maxLength, splitIndex>>
  /\ UNCHANGED sessionVars
  /\ UNCHANGED gateVars
  /\ UNCHANGED streamVars

\* findSplitPoint(content, maxLength) is called, as the loop of splitMessage
\* does for a text longer than maxLength
CallFindSplitPoint ==
  /\ splitIndex = 0 - 1
  /\ Len(content) > maxLength
  /\ splitIndex' = findSplitPoint(content, maxLength)
  /\ UNCHANGED <<content, maxLength, splitChunks>>
  /\ UNCHANGED sessionVars
  /\ UNCHANGED gateVars
  /\ UNCHANGED streamVars

(***************************************************************************)
(* The state machine.                                                      *)
(***************************************************************************)
\* no request yet
InitRegistry ==
  /\ hook = [k \in Reqs |-> NoHook]
  /\ published = [k \in Reqs |-> FALSE]
  /\ pendingApprovals = [i \in Reqs |-> 0]
  /\ timer = [k \in Reqs |-> "none"]
  /\ promise = [k \in Reqs |-> "none"]
  /\ fired = [k \in Reqs |-> NoEvent]
  /\ uiEdits = [k \in Reqs |-> <<>>]
  /\ reactQueue = [k \in Reqs |-> 0]
  /\ reactions = [k \in Reqs |-> 0]
  /\ btnInFlight = [k \in Reqs |-> {}]
  /\ cancelFetch = [k \in Reqs |-> FALSE]
  /\ lostDecision = [k \in Reqs |-> FALSE]

\* the SDK gives every tool call its own tool-use id
InitApprovals ==
  /\ InitRegistry
  /\ toolUseIds = [k \in Reqs |-> k]

InitStore ==
  /\ storeData = [c \in Channels |-> NoRecord]
  /\ disk = [c \in Channels |-> NoRecord]
  /\ abortSignalled = [m \in Msgs |-> FALSE]
  /\ clearPc = [c \in Channels |-> "idle"]
  /\ clearedSince = [c \in Channels |-> FALSE]
  /\ rewindReply = NoReply

\* a ChunkedUpdater as constructed; the clock stands at least one interval
\* after the epoch, where lastUpdateTime starts
InitUpdater ==
  /\ now = updateIntervalMs
  /\ streamPc = "streaming"
  /\ currentMessage = FALSE
  /\ contentBuffer = 0
  /\ lastUpdateTime = 0
  /\ updateTimer = FALSE
  /\ timers = <<>>
  /\ isEditing = FALSE
  /\ pendingUpdate = FALSE
  /\ consecutiveRateLimits = 0
  /\ flushPc = "idle"
  /\ backoffDue = 0
  /\ backoff = 0
  /\ chunkIndex = 0
  /\ inFlight = 0
  /\ flushStart = NoTime
  /\ lastGoodStart = NoTime
  /\ windowAppends = 0
  /\ contentToSend = 0
  /\ flushed = 0
  /\ callerEdits = FALSE
  /\ streamed = NoMessage
  /\ others = <<>>
  /\ finalFailed = FALSE

\* no call of the splitter
InitSplitter ==
  /\ content = <<>>
  /\ maxLength = 1
  /\ splitChunks = <<>>
  /\ splitIndex = 0 - 1

\* the bot after start-up with no sessions file
Init ==
  /\ activeSessions = [c \in Channels |-> NoSession]
  /\ handler = [m \in Msgs |-> NewHandler]
  /\ InitStore
  /\ InitApprovals
  /\ InitUpdater
  /\ InitSplitter

\* the steps of handleMessage and the end of the agent's event stream
MessageNext ==
  \/ \E m \in Msgs, c \in Channels, e \in BOOLEAN : H_Receive(m, c, e)
  \/ \E m \in Msgs : H_BusyReacted(m)
  \/ \E m \in Msgs : H_ImagesDone(m)
  \/ \E m \in Msgs, ok \in BOOLEAN : H_TypingDone(m, ok)
  \/ \E m \in Msgs : AgentEnd(m)
  \/ \E m \in Msgs : AgentFail(m)
  \/ \E m \in Msgs : H_Finally(m)

\* the steps that write the session handle: session-init, /clear and /rewind;
\* saves is the set of outcomes of a write of the sessions file
StoreNext(saves) ==
  \/ \E m \in Msgs, h \in Handles, ok \in saves : SessionInit(m, h, ok)
  \/ \E c \in Channels, ok \in saves : ClearStart(c, ok)
  \/ \E c \in Channels, o \in UnlinkOutcomes, ok \in saves : ClearFinish(c, o, ok)
  \/ \E c \in Channels, n \in 1..MaxCount, ok \in saves : RewindSession(c, n, ok)
  \/ \E c \in Channels, n \in 1..MaxCount : RewindRefused(c, n)

\* an approval request from the hook call to its timeout
RequestNext ==
  \/ \E k \in Reqs, m \in Msgs, t \in Tools, r \in BOOLEAN : HookCall(k, m, t, r)
  \/ \E k \in Reqs : SendPublished(k)
  \/ \E k \in Reqs : SendFails(k)
  \/ \E k \in Reqs : RequestApprovalResume(k)
  \/ \E k \in Reqs : TimeoutFires(k)

\* the decision events of the gate
DecisionNext ==
  \/ \E k \in Reqs : ReactSettled(k)
  \/ \E k \in Reqs, a \in BOOLEAN : ButtonClick(k, a)
  \/ \E k \in Reqs, a \in BOOLEAN, ok \in BOOLEAN : ButtonDeferred(k, a, ok)
  \/ \E k \in Reqs, a \in BOOLEAN : ReactionDecision(k, a)
  \/ \E c \in Channels, r \in BOOLEAN : CancelPendingApprovals(c, r)
  \/ \E k \in Reqs, ok \in BOOLEAN : CancelFetchDone(k, ok)

\* SessionPersistence.load: the channels object parsed from the sessions file
load(file) ==
  [c \in Channels |->
     IF file[c].present
     THEN [present |-> TRUE, sdkSessionId |-> file[c].sdkSessionId,
           messageHistory |-> file[c].messageHistory]
     ELSE NoRecord]

\* loadPersistedSessions: a session for every loaded channel with a handle
loadPersistedSessions(data) ==
  [c \in Channels |->
     IF getSessionId(data, c) # Null
     THEN [present |-> TRUE, sdkSessionId |-> getSessionId(data, c), isProcessing |-> FALSE]
     ELSE NoSession]

\* The process exits and a fresh one starts: the sessions file is loaded, the
\* running handlers, hook calls, timers and promises are gone. What Discord
\* holds (messages, reactions) stays. A graceful shutdown (SIGINT, SIGTERM)
\* writes the store once more before it exits, a crash does not.
Restart(graceful) ==
  /\ disk' = IF graceful THEN storeData ELSE disk
  /\ storeData' = load(disk')
  /\ activeSessions' = loadPersistedSessions(storeData')
  /\ handler' = [m \in Msgs |-> IF handler[m].pc = "new" THEN handler[m]
                                 ELSE [handler[m] EXCEPT !.pc = "done"]]
  /\ clearPc' = [c \in Channels |-> "idle"]
  /\ hook' = [k \in Reqs |-> IF hook[k].pc \in {"sending", "pending"}
                              THEN [hook[k] EXCEPT !.pc = "dead"] ELSE hook[k]]
  /\ pendingApprovals' = [i \in Reqs |-> 0]
  /\ timer' = [k \in Reqs |-> IF timer[k] = "armed" THEN "dead" ELSE timer[k]]
  /\ promise' = [k \in Reqs |-> IF promise[k] = "pending" THEN "dead" ELSE promise[k]]
  /\ reactQueue' = [k \in Reqs |-> 0]
  /\ btnInFlight' = [k \in Reqs |-> {}]
  /\ cancelFetch' = [k \in Reqs |-> FALSE]
  /\ UNCHANGED <<abortSignalled, clearedSince, rewindReply>>
  /\ UNCHANGED <<toolUseIds, published, fired, uiEdits, reactions, lostDecision>>
  /\ UNCHANGED streamVars
  /\ UNCHANGED splitVars

\* Sessions: messages, invocations, /clear and /rewind.
Next == MessageNext \/ StoreNext(BOOLEAN)

Spec == Init /\ [][Next]_vars

\* An invocation is running in each channel (message 1 in c1, message 2 in
\* c2, both past sendTyping) and stays running.
InitGate ==
  /\ activeSessions = [c \in Channels |->
       [present |-> TRUE, sdkSessionId |-> Null, isProcessing |-> TRUE]]
  /\ handler = [m \in Msgs |-> IF m = 1 THEN [pc |-> "query", ch |-> "c1", inits |-> 0, aborted |-> FALSE, rejection |-> "none"]
                               ELSE IF m = 2 THEN [pc |-> "query", ch |-> "c2", inits |-> 0, aborted |-> FALSE, rejection |-> "none"]
                               ELSE NewHandler]
  /\ InitStore
  /\ InitApprovals
  /\ InitUpdater
  /\ InitSplitter

\* The approval requests of running invocations, with /clear and /rewind
\* arriving meanwhile.
FlightNext == StoreNext({TRUE}) \/ RequestNext

SpecFlight == InitGate /\ [][FlightNext]_vars

\* Sessions whose saves succeed, with restarts of the process.
RestartNext ==
  \/ MessageNext
  \/ StoreNext({TRUE})
  \/ \E graceful \in BOOLEAN : Restart(graceful)

SpecRestart == Init /\ [][RestartNext]_vars

\* The handler with all the ways an execution ends, and /clear and /rewind.
HandlerNext ==
  \/ MessageNext
  \/ \E m \in Msgs : AgentAbort(m)
  \/ \E m \in Msgs : H_SetupFails(m)
  \/ \E m \in Msgs, known \in BOOLEAN : H_BusyReactFails(m, known)
  \/ StoreNext({TRUE})

SpecHandler == Init /\ [][HandlerNext]_vars

\* Two conversations side by side, each with an invocation running: their
\* approval requests, the failure of the agent, /clear, /rewind and
\* cancelPendingApprovals.
FrameNext ==
  \/ \E m \in Msgs, h \in Handles : SessionInit(m, h, TRUE)
  \/ \E c \in Channels : ClearStart(c, TRUE)
  \/ \E c \in Channels, o \in UnlinkOutcomes : ClearFinish(c, o, TRUE)
  \/ \E c \in Channels : RewindSession(c, 1, TRUE)
  \/ \E k \in Reqs, m \in Msgs, t \in dangerousTools : HookCall(k, m, t, TRUE)
  \/ \E k \in Reqs : SendPublished(k)
  \/ \E k \in Reqs : RequestApprovalResume(k)
  \/ \E m \in Msgs : AgentFail(m)
  \/ \E m \in Msgs : H_Finally(m)
  \/ \E c \in Channels, r \in BOOLEAN : CancelPendingApprovals(c, r)
  \/ \E k \in Reqs, ok \in BOOLEAN : CancelFetchDone(k, ok)

SpecFrame == InitGate /\ [][FrameNext]_vars

\* The approval gate on its own.
GateNext == RequestNext \/ DecisionNext

SpecGate == InitGate /\ [][GateNext]_vars

\* The approval gate when the hook is called with any tool-use ids, equal ones
\* included.
InitIds ==
  /\ activeSessions = [c \in Channels |->
       [present |-> TRUE, sdkSessionId |-> Null, isProcessing |-> TRUE]]
  /\ handler = [m \in Msgs |-> IF m = 1 THEN [pc |-> "query", ch |-> "c1", inits |-> 0, aborted |-> FALSE, rejection |-> "none"]
                               ELSE IF m = 2 THEN [pc |-> "query", ch |-> "c2", inits |-> 0, aborted |-> FALSE, rejection |-> "none"]
                               ELSE NewHandler]
  /\ InitStore
  /\ InitRegistry
  /\ toolUseIds \in [Reqs -> Reqs]
  /\ InitUpdater
  /\ InitSplitter

SpecIds == InitIds /\ [][GateNext]_vars

\* a timer that is armed fires unless it is cleared
FairGate == SpecGate /\ \A k \in Reqs : WF_vars(TimeoutFires(k))

\* The splitter called with any content of up to MaxContent characters and
\* any limit up to MaxLimit.
InitSplit ==
  /\ activeSessions = [c \in Channels |-> NoSession]
  /\ handler = [m \in Msgs |-> NewHandler]
  /\ InitStore
  /\ InitApprovals
  /\ InitUpdater
  /\ content \in Strings
  /\ maxLength \in 1..MaxLimit
  /\ splitChunks = <<>>
  /\ splitIndex = 0 - 1

SplitNext == CallSplitMessage \/ CallFindSplitPoint

SpecSplit == InitSplit /\ [][SplitNext]_vars

\* The steps of one response streamed by its updater: the agent's events, the
\* timers, the answers of Discord (a flush settles with one of outcomes) and
\* the end of the stream.
StreamSteps(outcomes) ==
  \/ appendContent
  \/ onToolUse
  \/ \E i \in 1..Len(timers) : TimerCallback(i)
  \/ \E o \in outcomes : FlushSettles(o)
  \/ BackoffDone
  \/ finalize
  \/ FinalizePoll
  \/ \E ok \in BOOLEAN : FinalizeSendSettles(ok)
  \/ FinalizePauseDone
  \/ sendError
  \/ \E ok \in BOOLEAN : SendErrorSettles(ok)

\* One response with a clock that runs freely up to the horizon.
StreamNext == StreamSteps(FlushOutcomes) \/ Tick

SpecStream == Init /\ [][StreamNext]_vars

\* Timers fire, sleeps end and Discord answers: what the event loop and the
\* transport guarantee.  The agent's events and the end of the stream are
\* under no obligation.
StreamFairness(outcomes) ==
  /\ WF_vars(\E i \in 1..Len(timers) : TimerCallback(i))
  /\ WF_vars(\E o \in outcomes : FlushSettles(o))
  /\ WF_vars(BackoffDone)
  /\ WF_vars(FinalizePoll)
  /\ WF_vars(\E ok \in BOOLEAN : FinalizeSendSettles(ok))
  /\ WF_vars(FinalizePauseDone)
  /\ WF_vars(\E ok \in BOOLEAN : SendErrorSettles(ok))
  /\ WF_vars(Elapse)

\* One response whose clock advances only while a timer or a sleep waits for
\* it (idle time changes nothing but the length of the next delay).
FairNext == StreamSteps(FlushOutcomes) \/ Elapse

FairStream == Init /\ [][FairNext]_vars /\ StreamFairness(FlushOutcomes)

\* The same with a transport whose only refusals are rate limits, at most
\* MaxRateLimits in a row.
DeliveryNext == StreamSteps({"ok", "rateLimit"}) \/ Elapse

FairDelivery == Init /\ [][DeliveryNext]_vars /\ StreamFairness({"ok", "rateLimit"})

(***************************************************************************)
(* Properties.                                                             *)
(***************************************************************************)
\* a step in which clearSession or rewindSession changes the session of c
SessionMutation(c) ==
  \/ \E ok \in BOOLEAN : ClearStart(c, ok) /\ clearPc'[c] = "idle"
  \/ \E o \in UnlinkOutcomes, ok \in BOOLEAN : ClearFinish(c, o, ok)
  \/ \E n \in 1..MaxCount, ok \in BOOLEAN : RewindSession(c, n, ok)

\* C1: in every conversation at most one invocation is in flight, and the
\* processing flag is true exactly while one is.
C1_OneInvocationFlagExact ==
  \A c \in Channels :
    /\ Cardinality(InFlight(c)) <= 1
    /\ activeSessions[c].isProcessing <=> InFlight(c) # {}

\* C2: a returned hook call allowed the tool iff the tool is not dangerous
\* (and nothing was published for it) or its published request was resolved by
\* an approve decision of a button or a reaction; a deny decision, a timeout,
\* a cancellation and an unresolvable channel give deny.
C2_AllowIffSafeOrApproved ==
  \A k \in Reqs :
    /\ hook[k].pc # "unused" /\ hook[k].tool \notin dangerousTools => ~published[k]
    /\ hook[k].pc = "returned" =>
         /\ hook[k].decision \in {"allow", "deny"}
         /\ hook[k].decision = "allow" <=>
              \/ hook[k].tool \notin dangerousTools /\ ~published[k]
              \/ /\ published[k]
                 /\ fired[k].kind \in {"button", "reaction"}
                 /\ fired[k].value
         /\ hook[k].tool \in dangerousTools /\ ~published[k] => hook[k].decision = "deny"
         /\ fired[k].kind \in {"timeout", "cancel"} => hook[k].decision = "deny"
         /\ fired[k].kind \in {"button", "reaction"} /\ ~fired[k].value
              => hook[k].decision = "deny"

\* C2 witness: one request allowed by an approving reaction, another denied by
\* its timeout
C2_Witness ==
  \E k, j \in Reqs :
    /\ hook[k].pc = "returned" /\ hook[k].decision = "allow"
    /\ fired[k].kind = "reaction" /\ fired[k].value
    /\ hook[j].pc = "returned" /\ hook[j].decision = "deny"
    /\ fired[j].kind = "timeout"

\* C3: the approval promise is settled iff a resolution event has fired, its
\* value is the decision of the first event that fired, and no later step
\* changes it.
C3_FirstEventWins ==
  /\ [](\A k \in Reqs :
          /\ fired[k].kind = "none" <=> promise[k] \in {"none", "pending"}
          /\ fired[k].kind # "none" => promise[k] = BoolStr(fired[k].value))
  /\ [][\A k \in Reqs : promise[k] \in {"true", "false"} => promise'[k] = promise[k]]_vars

\* C3 witness: a request approved by a reaction, after which a button decision
\* (deny) that was in flight has called resolve as well
C3_Witness ==
  \E k \in Reqs :
    /\ promise[k] = "true"
    /\ fired[k].kind = "reaction"
    /\ uiEdits[k] = <<"approved", "denied">>

\* C4: a request whose first resolution event is its timeout resolved false
\* (the hook denied), lost its registry entry and had the auto-denial notice
\* written to its message; and a registered request does not stay pending for
\* ever.
C4_TimeoutDenies ==
  /\ [](\A k \in Reqs :
          fired[k].kind = "timeout" =>
            /\ promise[k] = "false"
            /\ hook[k].pc = "returned" /\ hook[k].decision = "deny"
            /\ k \notin Registered
            /\ timer[k] = "fired"
            /\ uiEdits[k] # <<>> /\ uiEdits[k][1] = "timeout")
  /\ \A k \in Reqs : (k \in Registered) ~> (promise[k] \in {"true", "false"})

\* C4 witness: a request resolved by its timeout
C4_Witness ==
  \E k \in Reqs :
    /\ fired[k].kind = "timeout"
    /\ promise[k] = "false"
    /\ uiEdits[k] = <<"timeout">>

\* C5: a step in which a request of conversation c is cancelled resolves
\* every request registered for c to false, clears its timer and leaves no
\* registry entry for c; a cleared timer stays cleared.
C5_CancelResolvesAll ==
  /\ [][\A c \in Channels :
          (\E k \in Reqs : hook[k].ch = c /\ fired[k].kind = "none"
                           /\ fired'[k].kind = "cancel")
          => /\ \A j \in cancelTargets(c) :
                  /\ promise'[j] = "false"
                  /\ timer'[j] = "cleared"
                  /\ hook'[j].pc = "returned" /\ hook'[j].decision = "deny"
             /\ \A j \in Reqs : hook'[j].ch = c => pendingApprovals'[toolUseId(j)] # j]_vars
  /\ [][\A k \in Reqs : timer[k] = "cleared" => timer'[k] = "cleared"]_vars

\* C5 witness: two requests of one conversation, both resolved by
\* cancellation, none left in the registry
C5_Witness ==
  \E k, j \in Reqs :
    /\ k # j
    /\ hook[k].ch = hook[j].ch
    /\ fired[k].kind = "cancel" /\ fired[j].kind = "cancel"
    /\ promise[k] = "false" /\ promise[j] = "false"
    /\ Registered = {}

\* C6: a step in which clearSession or rewindSession changes the session of c
\* resolves every request registered for c to false.
C6_ClearCancelsApprovals ==
  [][\A c \in Channels :
       SessionMutation(c) => \A k \in cancelTargets(c) : promise'[k] = "false"]_vars

\* C7: once a clear of c has completed and until a message starts a new
\* invocation, c has no handle in memory and none in the session store.
C7_ClearedStaysCleared ==
  \A c \in Channels :
    clearedSince[c] =>
      /\ activeSessions[c].sdkSessionId = Null
      /\ getSessionId(storeData, c) = Null

\* C8: a step in which clearSession or rewindSession changes the session of c
\* finds the cancellation token of every invocation in flight for c cancelled.
C8_CancelBeforeMutation ==
  [][\A c \in Channels :
       SessionMutation(c) => \A m \in InFlight(c) : abortSignalled[m]]_vars

C10_PublishFailureDenies ==
  \A k \in Reqs :
    hook[k].pc \in {"returned", "threw"} /\ hook[k].tool \in dangerousTools /\ ~published[k]
      => /\ hook[k].pc = "returned"
         /\ hook[k].decision = "deny"
         /\ hook[k].reason \notin {"none", "user_denied"}
         /\ k \notin Registered
         /\ timer[k] = "none"

\* the last embed edit issued for request k ("none" before the first)
shownState(k) == IF uiEdits[k] = <<>> THEN "none" ELSE uiEdits[k][Len(uiEdits[k])]

\* no further embed edit of request k can be issued
editsSettled(k) ==
  /\ timer[k] # "armed"
  /\ ~cancelFetch[k]
  /\ btnInFlight[k] = {}

\* C11: a request resolved by cancelPendingApprovals shows the cancellation
\* notice, not the denial, once every edit of its message has been issued.
C11_CancelledShown ==
  \A k \in Reqs :
    fired[k].kind = "cancel" /\ editsSettled(k) => shownState(k) = "cancelled"

Min(a, b) == IF a <= b THEN a ELSE b

\* C12: a rewindSession(c, n) step on a history stack of length k removes the
\* last min(n, k) entries and reports that number; if entries remain the
\* handle, in memory and in the store, is the new last entry, which is
\* returned; otherwise the handle is null, the record is gone and null is
\* returned. A successful save writes the same to the sessions file.
C12_RewindExact ==
  [][\A c \in Channels, n \in 1..MaxCount :
       (\E ok \in BOOLEAN : RewindSession(c, n, ok)) =>
         LET history == storeData[c].messageHistory
             k == Len(history)
             kept == SubSeq(history, 1, k - Min(n, k))
         IN /\ rewindReply'.success
            /\ rewindReply'.messagesRemoved = Min(n, k)
            /\ IF kept # <<>>
               THEN /\ activeSessions'[c].sdkSessionId = kept[Len(kept)]
                    /\ storeData'[c] = [present |-> TRUE, sdkSessionId |-> kept[Len(kept)],
                                        messageHistory |-> kept]
                    /\ rewindReply'.rewoundTo = kept[Len(kept)]
               ELSE /\ activeSessions'[c].sdkSessionId = Null
                    /\ storeData'[c] = NoRecord
                    /\ rewindReply'.rewoundTo = Null
            /\ RewindSession(c, n, TRUE) => disk'[c] = storeData'[c]]_vars

\* C12 witness: a rewind by 2 of a stack that held one entry reported one
\* entry removed and left the conversation without handle and record
C12_Witness ==
  /\ rewindReply.success
  /\ rewindReply.count = 2
  /\ rewindReply.messagesRemoved = 1
  /\ rewindReply.rewoundTo = Null
  /\ \E c \in Channels : activeSessions[c].present /\ ~storeData[c].present

\* C13: a session-init(h) step of an invocation for c sets the handle of c in
\* memory and in the store to h and appends h once to the history stack of c
\* (a new record gets the history <<h>>); the sessions file is written in
\* that step.
C13_SessionInitWriteThrough ==
  [][\A m \in Msgs, h \in Handles :
       (\E ok \in BOOLEAN : SessionInit(m, h, ok)) =>
         LET c == handler[m].ch
             before == IF storeData[c].present THEN storeData[c].messageHistory ELSE <<>>
         IN /\ activeSessions'[c].sdkSessionId = h
            /\ storeData'[c] = [present |-> TRUE, sdkSessionId |-> h,
                                messageHistory |-> Append(before, h)]
            /\ \A d \in Channels \ {c} : storeData'[d] = storeData[d]
            /\ SessionInit(m, h, TRUE) => disk' = storeData']_vars

\* C13 witness: two session-init events of one conversation are on its stack
\* and in the sessions file
C13_Witness ==
  \E c \in Channels :
    /\ storeData[c].present
    /\ storeData[c].messageHistory = <<"h1", "h2">>
    /\ activeSessions[c].sdkSessionId = "h2"
    /\ disk[c] = storeData[c]

\* a step in which clearSession(c) returns, with save outcome ok
ClearReturns(c, ok) ==
  \/ ClearStart(c, ok) /\ clearPc'[c] = "idle"
  \/ \E o \in UnlinkOutcomes : ClearFinish(c, o, ok)

\* C14: every step in which clearSession(c) returns leaves c without handle
\* in memory and without record in the store (and in the sessions file when
\* the save succeeds), whether the unlink of the agent's session file
\* succeeded, found no file or failed otherwise; a pending unlink always ends
\* in such a step.
C14_ClearRemovesRecord ==
  [][\A c \in Channels :
       /\ (\E ok \in BOOLEAN : ClearReturns(c, ok)) =>
            /\ activeSessions'[c].sdkSessionId = Null
            /\ storeData'[c] = NoRecord
       /\ ClearReturns(c, TRUE) => disk'[c] = NoRecord
       /\ clearPc[c] = "unlink" /\ clearPc'[c] = "idle" =>
            /\ \A o \in UnlinkOutcomes : \E ok \in BOOLEAN : ClearFinish(c, o, ok)
            /\ activeSessions'[c].sdkSessionId = Null
            /\ storeData'[c] = NoRecord]_vars

\* C14 witness: a conversation whose invocation had set a handle was cleared
\* through the unlink of the session file and has neither handle nor record
C14_Witness ==
  \E c \in Channels :
    /\ clearedSince[c]
    /\ clearPc[c] = "idle"
    /\ \E m \in Msgs : handler[m].ch = c /\ handler[m].inits > 0
    /\ activeSessions[c].present /\ activeSessions[c].sdkSessionId = Null
    /\ storeData[c] = NoRecord /\ disk[c] = NoRecord

\* the handle getOrCreateSession(c) would return, given sessions and store
handleOf(sessions, data, c) ==
  IF sessions[c].present THEN sessions[c].sdkSessionId ELSE getSessionId(data, c)

\* the history stack of c in the store
historyOf(data, c) == IF data[c].present THEN data[c].messageHistory ELSE <<>>

\* C15: when every save succeeds, a restart leaves every conversation with
\* the handle and the history stack it had before the restart.
C15_RestartPreserves ==
  [][(\E graceful \in BOOLEAN : Restart(graceful)) =>
       \A c \in Channels :
         /\ handleOf(activeSessions', storeData', c) = handleOf(activeSessions, storeData, c)
         /\ historyOf(storeData', c) = historyOf(storeData, c)]_vars

\* C15 witness: after a restart one conversation is back with the handle and
\* stack it had been given, while a conversation that had a session without a
\* handle has no session object
C15_Witness ==
  \E c, d \in Channels :
    /\ activeSessions[c].present /\ activeSessions[c].sdkSessionId # Null
    /\ historyOf(storeData, c) # <<>>
    /\ \A m \in Msgs : handler[m].pc = "done"
    /\ \E m \in Msgs : handler[m].ch = d
    /\ ~activeSessions[d].present

\* C16: a session-init, clear or rewind step whose write of the sessions file
\* fails leaves the file as it was, and ends as it does after a successful
\* write: the invocation goes on, clearSession returns, rewindSession returns
\* its result, and handle and history in memory are those the operation sets.
C16_SaveFailureKeepsMemory ==
  [][/\ \A m \in Msgs, h \in Handles :
          SessionInit(m, h, FALSE) =>
            /\ disk' = disk
            /\ handler'[m].pc = "query"
            /\ handleOf(activeSessions', storeData', handler[m].ch) = h
            /\ historyOf(storeData', handler[m].ch)
                 = Append(historyOf(storeData, handler[m].ch), h)
     /\ \A c \in Channels :
          ClearReturns(c, FALSE) =>
            /\ disk' = disk
            /\ clearPc'[c] = "idle"
            /\ handleOf(activeSessions', storeData', c) = Null
            /\ historyOf(storeData', c) = <<>>
     /\ \A c \in Channels, n \in 1..MaxCount :
          RewindSession(c, n, FALSE) =>
            LET k == Len(historyOf(storeData, c))
                kept == SubSeq(historyOf(storeData, c), 1, k - Min(n, k))
            IN /\ disk' = disk
               /\ rewindReply' = [success |-> TRUE, count |-> n,
                                  rewoundTo |-> IF kept = <<>> THEN Null ELSE kept[Len(kept)],
                                  messagesRemoved |-> Min(n, k)]
               /\ handleOf(activeSessions', storeData', c) = rewindReply'.rewoundTo
               /\ historyOf(storeData', c) = kept]_vars

\* C16 witness: a rewind whose write failed returned its result and emptied
\* the conversation in memory, while the file still holds the record
C16_Witness ==
  \E c \in Channels :
    /\ rewindReply.success /\ rewindReply.rewoundTo = Null
    /\ rewindReply.messagesRemoved > 0
    /\ activeSessions[c].present /\ activeSessions[c].sdkSessionId = Null
    /\ ~storeData[c].present
    /\ disk[c].present
    /\ ~clearedSince[c]

\* C17: for one streaming coordinator, no two sends or edits of the outbound
\* response are in flight at the same time, whatever the interleaving of
\* appendContent, onToolUse, timer flushes, rate-limit retries, finalize and
\* sendError.
C17_OneRequestInFlight == inFlight <= 1

\* a flushUpdate call passes its guard and issues its reply or edit
FlushStarts == flushPc = "idle" /\ flushPc' = "sending"

C19_IntervalBetweenFlushes ==
  [][FlushStarts =>
       \/ lastGoodStart = NoTime
       \/ now - lastGoodStart >= updateIntervalMs]_vars

\* C20: every onToolUse call starts a flush at once (the buffer it sends holds
\* the tool marker), in every state, also while another flush is in flight or
\* one is scheduled.
C20_ToolUseFlushesAtOnce ==
  [][onToolUse => FlushStarts /\ flushStart' = now]_vars

\* C21: the backoff applied after the k-th rate-limited flush since the last
\* flush that succeeded is rateLimitBackoffMs * 2^(k-1): the first uses the
\* base delay, each further one a strictly longer delay than the one before,
\* and a flush that succeeds sets the count of rate limits back to zero.
C21_BackoffDoubles ==
  /\ [][FlushSettles("rateLimit") =>
          /\ backoff' = rateLimitBackoffMs * 2 ^ consecutiveRateLimits
          /\ (consecutiveRateLimits = 0 => backoff' = rateLimitBackoffMs)
          /\ (consecutiveRateLimits > 0 => backoff' > backoff)]_vars
  /\ [][FlushSettles("ok") => consecutiveRateLimits' = 0]_vars

\* the second rate limit in a row sleeps twice the base delay
C21_Witness ==
  /\ flushPc = "backoff"
  /\ consecutiveRateLimits = 2
  /\ backoff = 2 * rateLimitBackoffMs

\* C22: while the stream is open, content of the buffer that no successful
\* flush has carried yet (its flush was rate-limited, or it arrived while a
\* flush was in flight) is carried by a later successful flush without any
\* further call, when the transport refuses with rate limits only and stops
\* doing so; and appendContent and onToolUse return at once during a backoff.
C22_PendingContentFlushed ==
  /\ (contentBuffer > flushed) ~> (flushed = contentBuffer \/ streamPc # "streaming")
  /\ [](flushPc = "backoff" /\ streamPc = "streaming" /\ contentBuffer < MaxBuffer
          => ENABLED appendContent /\ ENABLED onToolUse)
  /\ [][(appendContent \/ onToolUse) /\ flushPc = "backoff" =>
          flushPc' = "backoff" /\ backoffDue' = backoffDue]_vars

\* a flush was rate-limited, and after the backoff a later flush has carried
\* the whole buffer
C22_Witness ==
  /\ streamPc = "streaming"
  /\ backoff > 0
  /\ consecutiveRateLimits = 0
  /\ flushPc = "idle"
  /\ flushed = contentBuffer
  /\ flushed > 0

shows(m) == [from |-> m.from, text |-> m.text, err |-> m.err, more |-> m.more]

\* the chunks first..last of the buffer, as finalize sends them
finalChunks(first, last) ==
  [i \in 1..(last - first + 1) |-> shows(finalChunk(contentBuffer, first + i - 1))]

\* the messages of the response are the chunks of the buffer in order: chunk 0
\* in the streamed message and the rest as follow-ups, or, with no streamed
\* message, all of them as new messages
FinalShown ==
  LET n == chunks(contentBuffer)
      shown == [i \in 1..Len(others) |-> shows(others[i])]
  IN  \/ /\ shows(streamed) = shows(finalChunk(contentBuffer, 0))
         /\ shown = finalChunks(1, n - 1)
      \/ /\ streamed = NoMessage
         /\ shown = finalChunks(0, n - 1)

\* C24: when finalize completes and all its sends succeeded, the messages of
\* the response carry the whole buffer: one message (the streamed message
\* edited, or a reply if there is none) when the buffer fits; otherwise the
\* chunks of splitMessage in order, chunk 0 in the streamed message (or as the
\* reply if there is none) and every later chunk as a follow-up.
C24_FinalizeCarriesBuffer ==
  [][(streamPc # "done" /\ streamPc' = "done" /\ ~finalFailed' /\ contentBuffer > 0)
       => FinalShown']_vars

\* C25: for every content and every maxLength >= 1, each chunk returned by
\* splitMessage(content, maxLength) has at most maxLength characters.
C25_ChunksWithinLimit ==
  \A i \in 1..Len(splitChunks) : Len(splitChunks[i]) <= maxLength

\* the characters of text that are not whitespace, in order
RECURSIVE nonWhitespace(_)
nonWhitespace(text) ==
  IF text = <<>> THEN <<>>
  ELSE IF Head(text) \in whitespace THEN nonWhitespace(Tail(text))
  ELSE <<Head(text)>> \o nonWhitespace(Tail(text))

\* the chunks joined in order
RECURSIVE concatenation(_)
concatenation(list) ==
  IF list = <<>> THEN <<>> ELSE Head(list) \o concatenation(Tail(list))

\* C26: for every content longer than maxLength, the chunks of splitMessage
\* joined in order have the same non-whitespace characters in the same order
\* as the content: nothing is lost, duplicated or reordered.
C26_SplitKeepsCharacters ==
  (splitChunks # <<>> /\ Len(content) > maxLength) =>
     nonWhitespace(concatenation(splitChunks)) = nonWhitespace(content)

\* a content with whitespace at its split points was split into three chunks
C26_Witness ==
  /\ Len(content) > maxLength
  /\ Len(splitChunks) = 3
  /\ Len(concatenation(splitChunks)) < Len(content)

\* findSplitPoint returned the index after the boundary pattern found last at
\* an index up to maxLength, and that index lies past the given share
\* (num / den) of maxLength
chose(pattern, num, den) ==
  \E i \in 0..maxLength :
    /\ occursAt(content, pattern, i)
    /\ \A j \in (i + 1)..maxLength : ~occursAt(content, pattern, j)
    /\ den * i > num * maxLength
    /\ splitIndex = i + Len(pattern)

\* a boundary pattern occurs at an index up to maxLength past the share
qualifies(pattern, num, den) ==
  \E i \in 0..maxLength :
    /\ occursAt(content, pattern, i)
    /\ \A j \in (i + 1)..maxLength : ~occursAt(content, pattern, j)
    /\ den * i > num * maxLength

\* the same for the sentence ends: the last index of any ender
sentenceQualifies ==
  \E i \in 0..maxLength :
    /\ \E n \in 1..Len(sentenceEnders) : occursAt(content, sentenceEnders[n], i)
    /\ \A j \in (i + 1)..maxLength, n \in 1..Len(sentenceEnders) :
         ~occursAt(content, sentenceEnders[n], j)
    /\ 10 * i > 3 * maxLength

choseSentence ==
  \E i \in 0..maxLength :
    /\ \E n \in 1..Len(sentenceEnders) : occursAt(content, sentenceEnders[n], i)
    /\ \A j \in (i + 1)..maxLength, n \in 1..Len(sentenceEnders) :
         ~occursAt(content, sentenceEnders[n], j)
    /\ 10 * i > 3 * maxLength
    /\ splitIndex = i + 2

\* C27: findSplitPoint chooses in strict priority order: the last paragraph
\* break within the limit if it lies past 50% of the limit; else the last
\* single newline past 50%; else the last sentence end past 30%; else the last
\* space past 30%; else a hard cut at exactly the limit.
C27_SplitPriority ==
  splitIndex # 0 - 1 =>
    IF qualifies(<<"\n", "\n">>, 1, 2) THEN chose(<<"\n", "\n">>, 1, 2)
    ELSE IF qualifies(<<"\n">>, 1, 2) THEN chose(<<"\n">>, 1, 2)
    ELSE IF sentenceQualifies THEN choseSentence
    ELSE IF qualifies(<<" ">>, 3, 10) THEN chose(<<" ">>, 3, 10)
    ELSE splitIndex = maxLength

\* a sentence end was chosen although a space qualifies further on
C27_Witness ==
  /\ splitIndex # 0 - 1
  /\ ~qualifies(<<"\n">>, 1, 2)
  /\ sentenceQualifies
  /\ choseSentence
  /\ qualifies(<<" ">>, 3, 10)
  /\ ~chose(<<" ">>, 3, 10)

\* C28: an execution whose event stream ended with an abort goes on to
\* finalize and never to sendError, while one whose stream ended with a
\* genuine error goes to sendError.
C28_AbortNotReported ==
  /\ [](\A m \in Msgs : handler[m].aborted => handler[m].pc \in {"finalize", "done"})
  /\ [][\A m \in Msgs : AgentAbort(m) => handler'[m].pc = "finalize"]_vars
  /\ [][\A m \in Msgs : AgentFail(m) => handler'[m].pc = "sendError"]_vars

\* an aborted execution has ended
C28_Witness == \E m \in Msgs : handler[m].aborted /\ handler[m].pc = "done"

\* C30: when an execution of handleMessage that had set the processing flag
\* of its channel ends, the flag is false, on every path; the flag is never
\* true with no execution in flight.
C30_FlagClearedOnExit ==
  /\ [][\A m \in Msgs :
          (handler[m].pc \in InFlightPcs /\ handler'[m].pc = "done")
             => ~activeSessions'[handler[m].ch].isProcessing]_vars
  /\ [](\A c \in Channels : activeSessions[c].isProcessing => InFlight(c) # {})

\* the whole error text is shown in the streamed message or in a reply
ErrorVisible ==
  \/ streamed.err = errorLength
  \/ \E i \in 1..Len(others) : others[i].err = errorLength

\* the error text is cut short or missing in what sendError wrote
ErrorCutOff == SendErrorSettles(TRUE) /\ ~ErrorVisible'

\* a later write removes the error text that was shown
ErrorOverwritten == ErrorVisible /\ ~ErrorVisible'

\* C29: when sendError's request succeeds the whole error text is shown, and
\* it is still shown after every later step of the updater: it is neither cut
\* off by the size limit nor overwritten by a flush.
C29_ErrorStaysVisible == [][~ErrorCutOff /\ ~ErrorOverwritten]_vars

\* C39: for a content with at least one non-whitespace character, no chunk
\* returned by splitMessage is the empty string.
C39_NoEmptyChunk ==
  (splitChunks # <<>> /\ nonWhitespace(content) # <<>>)
     => \A i \in 1..Len(splitChunks) : splitChunks[i] # <<>>

\* the text that is left at index i of content
suffix(i) == slice(content, i, Len(content))

\* C40: every iteration of the loop of splitMessage removes at least one
\* character from the remaining text, whatever suffix of the content the
\* remaining text is, so the loop ends.
C40_LoopShrinks ==
  \A i \in 0..Len(content) :
     Len(suffix(i)) > maxLength
        => Len(nextRemaining(suffix(i), maxLength)) < Len(suffix(i))

\* splitMessage has returned after three iterations or more of its loop
C40_Witness == Len(splitChunks) >= 3

\* C36: once finalize has returned no flush timer is armed, no flush is in
\* progress or in its backoff, and no send or edit awaits its answer, so the
\* updater writes nothing more.
C36_QuietAfterFinalize ==
  streamPc = "done" => (timers = <<>> /\ flushPc = "idle" /\ inFlight = 0)

\* the number of messages created with replyTo.reply: the streamed message,
\* and among the others the error text and chunk 0 of finalize (a later chunk
\* is a channel.send)
replies ==
  (IF streamed = NoMessage THEN 0 ELSE 1)
  + Cardinality({i \in 1..Len(others) :
                   \/ others[i].kind = "error"
                   \/ others[i].kind = "final" /\ others[i].from = 0})

\* C33: one updater creates at most one reply: the first successful flush
\* creates it, and every later flush, the final send of finalize and
\* sendError edit it.
C33_OneReply == replies <= 1

\* handle h of conversation c is the last entry of the history stack of c
topOfHistory(data, c, h) ==
  /\ data[c].present
  /\ Len(data[c].messageHistory) > 0
  /\ data[c].messageHistory[Len(data[c].messageHistory)] = h

\* C38: whenever a conversation has a handle, in its session or in its store
\* record, the handle is the last entry of the conversation's history stack,
\* so the stack is not empty while a handle exists.
C38_HandleIsTopOfHistory ==
  \A c \in Channels :
    /\ (activeSessions[c].present /\ activeSessions[c].sdkSessionId # Null)
          => topOfHistory(storeData, c, activeSessions[c].sdkSessionId)
    /\ getSessionId(storeData, c) # Null
          => topOfHistory(storeData, c, getSessionId(storeData, c))

\* a rewind has left a conversation with a handle and a shorter stack
C38_Witness ==
  \E c \in Channels :
    /\ rewindReply.success
    /\ rewindReply.messagesRemoved > 0
    /\ rewindReply.rewoundTo # Null
    /\ activeSessions[c].sdkSessionId = rewindReply.rewoundTo

\* C34: a message that arrives while the processing flag of its conversation
\* is true gets the hourglass reaction and nothing else: its execution goes
\* from the reaction to its end, then and after the running invocation has
\* ended, and no step of it changes the sessions or the store.
C34_BusyMessageDropped ==
  [][\A m \in Msgs :
       /\ (handler[m].pc = "new" /\ handler'[m].pc # "new"
             /\ activeSessions[handler'[m].ch].isProcessing)
            => (handler'[m].pc = "busyReact"
                  /\ activeSessions' = activeSessions /\ storeData' = storeData)
       /\ (handler[m].pc = "busyReact" /\ handler'[m] # handler[m])
            => (handler'[m].pc = "done"
                  /\ activeSessions' = activeSessions /\ storeData' = storeData)
       /\ handler[m].pc = "done" => handler'[m] = handler[m]]_vars

\* a message found the flag set and awaits its reaction, and the invocation
\* that was running has ended
C34_Witness ==
  \E m, n \in Msgs :
    /\ handler[m].pc = "busyReact"
    /\ handler[n].pc = "done"
    /\ handler[m].ch = handler[n].ch
    /\ handler[n].inits > 0

\* request k has an approval promise that is not settled
Live(k) == promise[k] = "pending"

\* C35: the registry holds an entry under an id exactly when a request with
\* that id is unresolved, and the entry is that of the unresolved request,
\* whose timer is armed: every unresolved request is the owner of the entry
\* under its id, and every entry is owned by an unresolved request with an
\* armed timer. This holds also when two requests are made with the same id.
C35_RegistryMatchesRequests ==
  /\ \A k \in Reqs : Live(k) => pendingApprovals[toolUseId(k)] = k
  /\ \A i \in Reqs : pendingApprovals[i] # 0
        => /\ Live(pendingApprovals[i])
           /\ toolUseId(pendingApprovals[i]) = i
           /\ timer[pendingApprovals[i]] = "armed"

\* C37: once a request is resolved and no further edit of its approval
\* message can be issued, the message shows "approved" exactly when the
\* request resolved to true (denied, timed out and cancelled all stand for
\* false), whatever the order of button, reaction, timeout and cancellation.
C37_DisplayAgrees ==
  \A k \in Reqs :
    (promise[k] \in {"true", "false"} /\ editsSettled(k))
       => (shownState(k) = "approved" <=> promise[k] = "true")

conversation(c) ==
  <<activeSessions[c].sdkSessionId,
    getSessionId(storeData, c),
    storeData[c].messageHistory,
    activeSessions[c].isProcessing,
    {<<k, timer[k], promise[k]>> : k \in {j \in Registered : hook[j].ch = c}}>>

\* the step is an operation or a failure on conversation c
OperationOn(c) ==
  \/ \E m \in Msgs :
       /\ handler[m].ch = c
       /\ \/ \E h \in Handles : SessionInit(m, h, TRUE)
          \/ AgentFail(m)
          \/ H_Finally(m)
          \/ \E k \in Reqs, t \in dangerousTools : HookCall(k, m, t, TRUE)
  \/ \E k \in Reqs :
       /\ hook[k].ch = c
       /\ hook[k].pc # "unused"
       /\ \/ SendPublished(k)
          \/ RequestApprovalResume(k)
          \/ \E ok \in BOOLEAN : CancelFetchDone(k, ok)
  \/ ClearStart(c, TRUE)
  \/ \E o \in UnlinkOutcomes : ClearFinish(c, o, TRUE)
  \/ RewindSession(c, 1, TRUE)
  \/ \E r \in BOOLEAN : CancelPendingApprovals(c, r)

\* C31: an operation or failure on conversation a (a session-init, an agent
\* failure, the end of the handler, an approval request, /clear, /rewind,
\* cancelPendingApprovals) leaves what another conversation b holds unchanged,
\* and leaves the buffer of the updater unchanged.
C31_OtherConversationUntouched ==
  [][\A a, b \in Channels :
       (a # b /\ OperationOn(a))
          => (conversation(b)' = conversation(b) /\ contentBuffer' = contentBuffer)]_vars

\* the pending request of one conversation was cancelled while the other
\* conversation has a handle, a running invocation and a pending request
C31_Witness ==
  \E j, k \in Reqs :
    /\ hook[j].ch # hook[k].ch
    /\ fired[j].kind = "cancel"
    /\ k \in Registered
    /\ timer[k] = "armed"
    /\ activeSessions[hook[k].ch].sdkSessionId # Null
    /\ activeSessions[hook[k].ch].isProcessing
====
